---- MODULE Spec2Model ----
(***************************************************************************)
(* Verification model of the Duux credential-capture subsystem:            *)
(*   - the mitmproxy capture addon           (proxy_addon.py)              *)
(*   - the proxy process manager             (proxy_manager.py)            *)
(*   - the loopback credential listener and the setup flow                 *)
(*                                           (config_flow.py)              *)
(* Strings the code parses are sequences of one-character strings, so that *)
(* prefix tests, slices and the path pattern are computed, not assumed.    *)
(* Python's None is 0 for a port or a process handle, <<>> for an absent   *)
(* file or payload field.                                                  *)
(***************************************************************************)
EXTENDS Integers, Sequences, FiniteSets, TLC

\* ------------------------------------------------------------------ bounds

\* Number of proxy processes the operating system will spawn in one run.
MaxProcs == 2
\* Number of ephemeral ports the operating system hands out.
MaxPort == 2
\* Number of start_proxy calls that pass the running guard in one run.
MaxSessions == 2
\* Number of CredentialServer objects one flow creates in one run.
MaxServers == 2
\* Clock ticks per second, and the largest timeout (in ticks) a timed
\* wait_for_credentials call is given.
TicksPerSecond == 2
MaxT == 5

Procs == 1..MaxProcs
Ports == 1..MaxPort
\* The coroutines that call into one ProxyManager concurrently.
Tasks == {"t1", "t2"}
Servers == 1..MaxServers

\* ------------------------------------------------------------ text helpers

\* A prefix test that accepts every string.
starts_any(s, prefix) == TRUE

StartsWith(s, prefix) ==
    /\ Len(s) >= Len(prefix)
    /\ SubSeq(s, 1, Len(prefix)) = prefix

\* A slice that keeps the whole string.
slice_whole(s, n) == s

\* s[n:] of Python (n counted from 0).
SliceFrom(s, n) == SubSeq(s, n + 1, Len(s))

HexColonChars ==
    {"0","1","2","3","4","5","6","7","8","9",
     "a","b","c","d","e","f","A","B","C","D","E","F",":"}

DataPrefix == <<"/","d","a","t","a","/">>
StatusSuffix == <<"/","s","t","a","t","u","s">>
BearerPrefix == <<"B","e","a","r","e","r"," ">>

\* Length of the longest run of [a-fA-F0-9:] characters of s starting at i.
RECURSIVE RunLen(_, _)
RunLen(s, i) ==
    IF i <= Len(s) /\ s[i] \in HexColonChars THEN 1 + RunLen(s, i + 1) ELSE 0

\* Whether /data/([a-fA-F0-9:]+)/status matches s at position i.  "/" is not
\* in the class, so the greedy group is the maximal run and no backtracking
\* to a shorter run can succeed.
MatchesAt(s, i) ==
    LET g == i + Len(DataPrefix)
        n == RunLen(s, g)
    IN  /\ i + Len(DataPrefix) - 1 <= Len(s)
        /\ SubSeq(s, i, i + Len(DataPrefix) - 1) = DataPrefix
        /\ n >= 1
        /\ g + n + Len(StatusSuffix) - 1 <= Len(s)
        /\ SubSeq(s, g + n, g + n + Len(StatusSuffix) - 1) = StatusSuffix

\* A pattern that matches every path and takes all of it as the group.
pattern_any(path) == <<path>>

\* DEVICE_ID_PATTERN.search(path): <<>> when there is no match, else
\* <<group 1>> of the leftmost match.
DEVICE_ID_PATTERN(path) ==
    LET hits == {i \in 1..Len(path) : MatchesAt(path, i)}
    IN  IF hits = {} THEN <<>>
        ELSE LET i == CHOOSE k \in hits : \A j \in hits : k <= j
                 g == i + Len(DataPrefix)
             IN  <<SubSeq(path, g, g + RunLen(path, g) - 1)>>

\* ---------------------------------------------------------------- requests

DUUX_API_HOST == "v5.api.cloudgarden.nl"

\* A header that is not sent.
NoHeader == <<"<absent>">>

DevA == <<"a","1",":","b","2">>
DevB == <<"c","3",":","d","4">>
TokA == <<"t","o","k","A">>
TokB == <<"t","o","k","B">>

StatusPath(dev) == DataPrefix \o dev \o StatusSuffix
Bearer(tok) == BearerPrefix \o tok

\* The requests a proxy process of a session intercepts: two that carry
\* credentials and one the addon ignores.  (The request hook is run on
\* every kind of request it has to ignore under ARequests below.)
Requests ==
    { [host |-> DUUX_API_HOST, auth |-> Bearer(TokA), path |-> StatusPath(DevA)],
      [host |-> DUUX_API_HOST, auth |-> Bearer(TokB), path |-> StatusPath(DevB)],
      [host |-> DUUX_API_HOST, auth |-> TokA, path |-> StatusPath(DevA)] }

Cred(dev, tok) == [device_id |-> dev, jwt_token |-> tok]

\* dict.get(key) with None rendered as the empty string (both are falsy).
Get(d, key) == IF key \in DOMAIN d THEN d[key] ELSE <<>>

\* The captured_credentials dict of a fresh addon: {}.
EmptyDict == <<>>

\* DuuxCredentialCapture.request: the credential the request commits, <<>>
\* when the request is ignored.
Capture(req) ==
    IF req.host # DUUX_API_HOST THEN <<>>
    ELSE IF req.auth = NoHeader \/ req.auth = <<>> THEN <<>>
    ELSE LET jwt_token == IF StartsWith(req.auth, BearerPrefix)
                          THEN SliceFrom(req.auth, 7) ELSE <<>>
             match == DEVICE_ID_PATTERN(req.path)
         IN  IF jwt_token = <<>> THEN <<>>
             ELSE IF match = <<>> THEN <<>>
             ELSE <<Cred(match[1], jwt_token)>>

\* ------------------------------------------------------------------- state

VARIABLES
    proxy_port,      \* ProxyManager.proxy_port (0: None)
    proxy_process,   \* ProxyManager.proxy_process (0: None)
    running,         \* ProxyManager._running
    procState,       \* each mitmdump process: "unspawned", "alive", "exited"
    procPort,        \* the port each spawned process listens on
    captured,        \* each process's addon: captured_credentials
    credFile,        \* /tmp/duux_credentials.json: <<>> absent, else <<content>>
    pc,              \* where each calling coroutine is suspended
    awaited,         \* the process a coroutine suspended in stop_proxy waits for
    cmdPort,         \* the port in the command line a start_proxy is spawning
    pending,         \* the exception a start_proxy re-raises after its cleanup
    ret,             \* the outcome of the call that completed last
    session,         \* number of start_proxy calls that passed the guard
    fileSession,     \* the session in which the hand-off file was last written
    variant,         \* the hand-off implementation a run exercises
    credential_server, \* ConfigFlow.credential_server (0: None)
    srvState,        \* each CredentialServer: "unborn", "listening", "failed", "stopped"
    srvCred,         \* CredentialServer.credentials: <<>> None, else <<data>>
    srvEvent,        \* CredentialServer.credential_event is set
    srvFirst,        \* the data of the first POST each server accepted
    response,        \* the HTTP status of the last answer to POST /credentials
    fpc,             \* where the flow's step coroutine is suspended
    stepSrv,         \* the server the suspended waiting step waits on
    stepStops,       \* CredentialServer.stop calls made by the last waiting step
    result,          \* the FlowResult of the step that completed last
    flowDone,        \* the flow ended: an entry was created or it aborted
    validation,      \* the last validate_input call: how its status call
                     \* ended and the exception it raised
    unique_id,       \* the unique id of the flow (async_set_unique_id)
    validated,       \* the credentials the last validate_input call got
    now,             \* the event loop's clock, in ticks
    wKind,           \* the timed wait_for_credentials call: "file" or "event"
    wT,              \* its timeout, in ticks
    wpc,             \* "new", "sleeping" (file), "waiting" (event), "done"
    wStart,          \* start_time, the clock when it was called
    wWake,           \* the clock at which its asyncio.sleep(1) ends
    wResult,         \* what it returned: <<>> None, else <<credentials>>
    wRetTime,        \* the clock when it returned
    wReported,       \* it saw the fill ("Successfully captured credentials")
    wWarned,         \* it logged "Error reading credentials file"
    fillTime,        \* the clock of the hand-off fill, -1 before it
    ha_endpoint,     \* DuuxCredentialExtractor.ha_endpoint is given
    xCaptured,       \* the script addon's captured_credentials: <<>> or <<cred>>
    xRunning,        \* DuuxCredentialExtractor.running
    xProxy,          \* proxy_task: "off", "running", "stopping", "finished",
                     \* "cancelled"
    xMonitor,        \* monitor_task: "off", "loop", "posting", "finished",
                     \* "cancelled"
    xMain,           \* start_proxy: "off", "starting" (before the tasks exist),
                     \* "waiting" (asyncio.wait), "returned"
    xSigints,        \* calls of stop_proxy by the SIGINT handler so far
    xPost,           \* the POST of send_to_ha: its state and its JSON body
    aPc,             \* the capture addon: "idle", or "hook" while mitmproxy
                     \* is about to call request(flow)
    aFlow,           \* the flow mitmproxy intercepted last
    aStored,         \* DuuxCredentialCapture.captured_credentials
    aFile,           \* the credentials file the addon writes
    \* DuuxDataUpdateCoordinator
    auth_failure_count,     \* self._auth_failure_count
    repair_issue_created,   \* self._repair_issue_created
    issue,           \* the issue registry holds the auth_failed issue
    updated,         \* what the last _async_update_data returned or raised
    issueCalls,      \* the registry calls the last update made
    \* DuuxFan and DuuxApiClient
    fCall,           \* the last call made on the fan entity or the client
    sent,            \* the commands that call posted, in order
    refreshes,       \* the refresh requests that call made
    fRaised          \* the exception that escaped that call

proxyVars ==
    <<proxy_port, proxy_process, running, procState, procPort, captured,
      credFile, pc, awaited, cmdPort, pending, ret, session, fileSession>>

flowVars ==
    <<credential_server, srvState, srvCred, srvEvent, srvFirst, response, fpc,
      stepSrv, stepStops, result, flowDone, validation,
                   unique_id, validated>>

waitVars ==
    <<now, wKind, wT, wpc, wStart, wWake, wResult, wRetTime, wReported, wWarned,
      fillTime>>

extractVars ==
    <<ha_endpoint, xCaptured, xRunning, xProxy, xMonitor, xMain, xPost,
      xSigints>>

addonVars == <<aPc, aFlow, aStored, aFile>>

coordVars == <<auth_failure_count, repair_issue_created, issue, updated,
               issueCalls>>

fanVars == <<fCall, sent, refreshes, fRaised>>

vars == <<variant, proxyVars, flowVars, waitVars, extractVars, addonVars,
          coordVars, fanVars>>

\* ---------------------------------------------------------------- outcomes

\* An exception: its class, its message as the pieces the f-string joins,
\* and (for the start failure) the stderr the message was built from.
Exc(kind, msg, stderr) == [kind |-> kind, msg |-> msg, stderr |-> stderr]
NoExc == Exc("none", <<>>, <<>>)

\* What a completed call gave its caller: the exception it raised (kind
\* "none" for a normal return), the port start_proxy returned, the
\* credentials wait_for_credentials returned (<<>>: None).
Outcome(op, exc, port, cred) ==
    [op |-> op, kind |-> exc.kind, msg |-> exc.msg,
     stderr |-> exc.stderr, port |-> port, cred |-> cred]

NoOutcome == Outcome("none", NoExc, 0, <<>>)

\* -------------------------------------------------------------------- Init

\* A credentials file left by an earlier run of the host.
StaleCred == Cred(DevB, <<"o","l","d">>)

ProxyIdle ==
    /\ proxy_port = 0
    /\ proxy_process = 0
    /\ running = FALSE
    /\ procState = [p \in Procs |-> "unspawned"]
    /\ procPort = [p \in Procs |-> 0]
    /\ captured = [p \in Procs |-> EmptyDict]
    /\ credFile = <<>>
    /\ pc = [t \in Tasks |-> "idle"]
    /\ awaited = [t \in Tasks |-> 0]
    /\ cmdPort = [t \in Tasks |-> 0]
    /\ pending = [t \in Tasks |-> NoExc]
    /\ ret = NoOutcome
    /\ session = 0
    /\ fileSession = 0

ProxyInit ==
    /\ proxy_port = 0
    /\ proxy_process = 0
    /\ running = FALSE
    /\ procState = [p \in Procs |-> "unspawned"]
    /\ procPort = [p \in Procs |-> 0]
    /\ captured = [p \in Procs |-> EmptyDict]
    /\ credFile \in {<<>>, <<StaleCred>>}
    /\ pc = [t \in Tasks |-> "idle"]
    /\ awaited = [t \in Tasks |-> 0]
    /\ cmdPort = [t \in Tasks |-> 0]
    /\ pending = [t \in Tasks |-> NoExc]
    /\ ret = NoOutcome
    /\ session = 0
    /\ fileSession = 0

\* ---------------------------------------------------------- free-port scan

\* find_free_port: the operating system hands out a port no live process
\* is listening on.
find_free_port ==
    {q \in Ports : \A p \in Procs : procState[p] = "alive" => procPort[p] # q}

\* ------------------------------------------------------------- stop_proxy

Alive(p) == p # 0 /\ procState[p] = "alive"

\* The call a coroutine suspended in stop_proxy is serving: stop_proxy
\* itself, or the except block of start_proxy.
OpOf(t) == IF pending[t] = NoExc THEN "stop" ELSE "start"

\* A stop_proxy that leaves an existing credentials file in place.
stop_keeps(file) == file

\* stop_proxy removes a credentials file that exists: the file afterwards.
stop_clears(file) == <<>>

\* The tail of stop_proxy: clear the fields, remove the file, and leave the
\* coroutine with exc (the exception start_proxy re-raises, or none for a
\* plain return).
StopFinish(t, op, exc) ==
    /\ proxy_process' = 0
    /\ proxy_port' = 0
    /\ running' = FALSE
    /\ credFile' = stop_clears(credFile)
    /\ pc' = [pc EXCEPT ![t] = "idle"]
    /\ awaited' = [awaited EXCEPT ![t] = 0]
    /\ pending' = [pending EXCEPT ![t] = NoExc]
    /\ cmdPort' = [cmdPort EXCEPT ![t] = 0]
    /\ ret' = Outcome(op, exc, 0, <<>>)
    /\ UNCHANGED <<procState, procPort, captured, session, fileSession>>

\* Entering stop_proxy: a live process is sent terminate and waited for;
\* otherwise the body falls through to the tail.
StopEntry(t, op, exc) ==
    IF Alive(proxy_process)
    THEN /\ pc' = [pc EXCEPT ![t] = "stop_wait"]
         /\ awaited' = [awaited EXCEPT ![t] = proxy_process]
         /\ pending' = [pending EXCEPT ![t] = exc]
         /\ cmdPort' = [cmdPort EXCEPT ![t] = 0]
         /\ UNCHANGED <<proxy_port, proxy_process, running, procState, procPort,
                        captured, credFile, ret, session, fileSession>>
    ELSE StopFinish(t, op, exc)

StopProxy(t) ==
    /\ variant = "file"
    /\ pc[t] = "idle"
    /\ StopEntry(t, "stop", NoExc)
    /\ UNCHANGED <<variant, flowVars, waitVars, extractVars, addonVars, coordVars, fanVars>>

\* wait_for(self.proxy_process.wait(), timeout=5), or the wait after kill,
\* returns: the process exited.
StopWaited(t) ==
    /\ variant = "file"
    /\ pc[t] \in {"stop_wait", "kill_wait"}
    /\ procState[awaited[t]] = "exited"
    /\ StopFinish(t, OpOf(t), pending[t])
    /\ UNCHANGED <<variant, flowVars, waitVars, extractVars, addonVars, coordVars, fanVars>>

\* A call that ends by raising exc without reaching the tail of stop_proxy.
Raise(t, op, exc) ==
    /\ pc' = [pc EXCEPT ![t] = "idle"]
    /\ awaited' = [awaited EXCEPT ![t] = 0]
    /\ pending' = [pending EXCEPT ![t] = NoExc]
    /\ cmdPort' = [cmdPort EXCEPT ![t] = 0]
    /\ ret' = Outcome(op, exc, 0, <<>>)

\* The 5 second wait timed out: self.proxy_process.kill() on whatever the
\* field holds now, then wait for that process.  None has no kill(); the
\* transport of an exited process raises ProcessLookupError once it is
\* closed and ignores the signal before that.
StopTimeout(t) ==
    /\ variant = "file"
    /\ pc[t] = "stop_wait"
    /\ procState[awaited[t]] = "alive"
    /\ \E closed \in BOOLEAN :
         IF proxy_process = 0
         THEN Raise(t, OpOf(t), Exc("AttributeError", <<>>, <<>>))
         ELSE IF ~Alive(proxy_process) /\ closed
         THEN Raise(t, OpOf(t), Exc("ProcessLookupError", <<>>, <<>>))
         ELSE /\ pc' = [pc EXCEPT ![t] = "kill_wait"]
              /\ awaited' = [awaited EXCEPT ![t] = proxy_process]
              /\ UNCHANGED <<pending, cmdPort, ret>>
    /\ UNCHANGED <<proxy_port, proxy_process, running, procState, procPort,
                   captured, credFile, session, fileSession>>
    /\ UNCHANGED <<variant, flowVars, waitVars, extractVars, addonVars, coordVars, fanVars>>

\* ------------------------------------------------------------ start_proxy

ProxyState == <<proxy_port, proxy_process, running, procState, procPort, credFile>>

\* A guard that lets every call through.
already_running_never == FALSE

\* The guard of start_proxy: if self._running.
already_running == running

\* A start_proxy that leaves an existing credentials file in place.
start_keeps(file) == file

\* start_proxy removes a credentials file that exists: the file afterwards.
start_clears(file) == <<>>

\* start_proxy up to its first await: the guard, the port, the stale file.
StartProxy(t) ==
    /\ variant = "file"
    /\ pc[t] = "idle"
    /\ IF already_running
       THEN /\ ret' = Outcome("start",
                        Exc("RuntimeError", <<"Proxy is already running">>, <<>>),
                        0, <<>>)
            /\ UNCHANGED <<proxy_port, proxy_process, running, procState, procPort,
                           captured, credFile, pc, awaited, cmdPort, pending,
                           session, fileSession>>
       ELSE /\ session < MaxSessions
            /\ \E port \in find_free_port :
                 /\ proxy_port' = port
                 /\ cmdPort' = [cmdPort EXCEPT ![t] = port]
            /\ credFile' = start_clears(credFile)
            /\ session' = session + 1
            /\ pc' = [pc EXCEPT ![t] = "spawn"]
            /\ UNCHANGED <<proxy_process, running, procState, procPort, captured,
                           awaited, pending, ret, fileSession>>
    /\ UNCHANGED <<variant, flowVars, waitVars, extractVars, addonVars, coordVars, fanVars>>

\* create_subprocess_exec returns: the process exists and is stored.  A
\* process whose port is taken exits at once.
Spawned(t) ==
    /\ variant = "file"
    /\ pc[t] = "spawn"
    /\ \E p \in Procs :
         /\ procState[p] = "unspawned"
         /\ \A q \in Procs : q < p => procState[q] # "unspawned"
         /\ IF cmdPort[t] \in find_free_port
            THEN /\ procState' = [procState EXCEPT ![p] = "alive"]
                 /\ procPort' = [procPort EXCEPT ![p] = cmdPort[t]]
            ELSE /\ procState' = [procState EXCEPT ![p] = "exited"]
                 /\ UNCHANGED procPort
         /\ proxy_process' = p
    /\ pc' = [pc EXCEPT ![t] = "grace"]
    /\ UNCHANGED <<proxy_port, running, captured, credFile, awaited, cmdPort,
                   pending, ret, session, fileSession>>
    /\ UNCHANGED <<variant, flowVars, waitVars, extractVars, addonVars, coordVars, fanVars>>

\* create_subprocess_exec raises (mitmdump is not installed): the except
\* block runs stop_proxy and re-raises.
SpawnFailed(t) ==
    /\ variant = "file"
    /\ pc[t] = "spawn"
    /\ StopEntry(t, "start", Exc("FileNotFoundError", <<"mitmdump">>, <<>>))
    /\ UNCHANGED <<variant, flowVars, waitVars, extractVars, addonVars, coordVars, fanVars>>

StdErrs == {<<>>, <<"b","i","n","d">>}

\* The 3 second sleep is over: the return code of whatever proxy_process
\* holds now decides.
GraceOver(t) ==
    /\ variant = "file"
    /\ pc[t] = "grace"
    /\ IF proxy_process = 0
       THEN StopEntry(t, "start", Exc("AttributeError", <<>>, <<>>))
       ELSE IF procState[proxy_process] = "exited"
       THEN \E stderr \in StdErrs :
              LET error_msg == IF stderr # <<>> THEN stderr
                               ELSE <<"Unknown error">>
              IN  StopEntry(t, "start",
                    Exc("RuntimeError",
                        <<"Failed to start proxy: ">> \o error_msg, stderr))
       ELSE /\ running' = TRUE
            /\ ret' = Outcome("start", NoExc, proxy_port, <<>>)
            /\ pc' = [pc EXCEPT ![t] = "idle"]
            /\ cmdPort' = [cmdPort EXCEPT ![t] = 0]
            /\ UNCHANGED <<proxy_port, proxy_process, procState, procPort,
                           captured, credFile, awaited, pending, session,
                           fileSession>>
    /\ UNCHANGED <<variant, flowVars, waitVars, extractVars, addonVars, coordVars, fanVars>>

\* ------------------------------------------------------------ environment

\* A mitmdump process exits: on its own, after terminate, or after kill.
\* Its port is released and its addon object is gone with it.
ProcExit(p) ==
    /\ variant = "file"
    /\ procState[p] = "alive"
    /\ procState' = [procState EXCEPT ![p] = "exited"]
    /\ procPort' = [procPort EXCEPT ![p] = 0]
    /\ captured' = [captured EXCEPT ![p] = EmptyDict]
    /\ UNCHANGED <<proxy_port, proxy_process, running,
                   credFile, pc, awaited, cmdPort, pending, ret, session,
                   fileSession>>
    /\ UNCHANGED <<variant, flowVars, waitVars, extractVars, addonVars, coordVars, fanVars>>

\* The addon of a live process sees one request.
Request(p, req) ==
    /\ variant = "file"
    /\ procState[p] = "alive"
    /\ LET c == Capture(req)
       IN  IF c = <<>>
           THEN UNCHANGED <<captured, credFile, fileSession>>
           ELSE /\ captured' = [captured EXCEPT ![p] = c[1]]
                /\ credFile' = c
                /\ fileSession' = session
    /\ UNCHANGED <<proxy_port, proxy_process, running, procState, procPort,
                   pc, awaited, cmdPort, pending, ret, session>>
    /\ UNCHANGED <<variant, flowVars, waitVars, extractVars, addonVars, coordVars, fanVars>>

\* --------------------------------------------------- wait_for_credentials

\* One pass of the polling loop of a wait_for_credentials call: a file with
\* both fields non-empty ends the call with its content.
Valid(file) ==
    /\ file # <<>>
    /\ Get(file[1], "device_id") # <<>>
    /\ Get(file[1], "jwt_token") # <<>>

WaitCall(t) ==
    /\ variant = "file"
    /\ pc[t] = "idle"
    /\ pc' = [pc EXCEPT ![t] = "poll"]
    /\ UNCHANGED <<proxy_port, proxy_process, running, procState, procPort,
                   captured, credFile, awaited, cmdPort, pending, ret, session,
                   fileSession>>
    /\ UNCHANGED <<variant, flowVars, waitVars, extractVars, addonVars, coordVars, fanVars>>

WaitPoll(t) ==
    /\ variant = "file"
    /\ pc[t] = "poll"
    /\ Valid(credFile)
    /\ ret' = Outcome("wait", NoExc, 0, credFile)
    /\ pc' = [pc EXCEPT ![t] = "idle"]
    /\ UNCHANGED <<proxy_port, proxy_process, running, procState, procPort,
                   captured, credFile, awaited, cmdPort, pending, session,
                   fileSession>>
    /\ UNCHANGED <<variant, flowVars, waitVars, extractVars, addonVars, coordVars, fanVars>>

WaitTimeout(t) ==
    /\ variant = "file"
    /\ pc[t] = "poll"
    /\ ret' = Outcome("wait", NoExc, 0, <<>>)
    /\ pc' = [pc EXCEPT ![t] = "idle"]
    /\ UNCHANGED <<proxy_port, proxy_process, running, procState, procPort,
                   captured, credFile, awaited, cmdPort, pending, session,
                   fileSession>>
    /\ UNCHANGED <<variant, flowVars, waitVars, extractVars, addonVars, coordVars, fanVars>>

\* ProxyManager.is_running
is_running == running /\ proxy_process # 0

\* ProxyManager.get_proxy_config, called in the current state: the
\* RuntimeError it raises, or the configuration it returns.
get_proxy_config ==
    IF proxy_port = 0
    THEN [raised |-> "Proxy is not running", proxy_port |-> 0]
    ELSE [raised |-> "", proxy_port |-> proxy_port]

\* ------------------------------------------------------ CredentialServer

Digits == <<"1","2","3","4","5","6","7","8","9">>

\* The extraction script started for listener n sends the token it captured
\* in that session.
SessionTok(n) == <<"t","o","k", Digits[n]>>

\* A request body: text that is no JSON, or a JSON value.
NotJson == [json |-> FALSE, data |-> <<>>]
Json(d) == [json |-> TRUE, data |-> d]

\* What json.loads gives for a body that is no JSON object: a list of
\* strings, or a number.
JsonArray(items) == [array |-> items]
JsonNumber == [number |-> 0]

\* A JSON object (a Python dict).
IsDict(data) == "array" \notin DOMAIN data /\ "number" \notin DOMAIN data

\* Python's `key in data`: a key of a dict, an element of a list;
\* TypeError for a number, which is not iterable.
Iterable(data) == "number" \notin DOMAIN data
Contains(data, key) ==
    IF "array" \in DOMAIN data THEN key \in data.array
    ELSE key \in DOMAIN data

\* The bodies POSTed to listener n.
Bodies(n) ==
    { Json(Cred(DevA, SessionTok(n))),
      Json([device_id |-> DevA]),
      Json([device_id |-> <<>>, jwt_token |-> SessionTok(n)]),
      Json(JsonArray({"device_id", "jwt_token"})),
      Json(JsonNumber),
      NotJson }

\* CredentialServer.receive_credentials: the status it answers with.
\* JSONDecodeError of request.json() gives 400, the TypeError of `in` on a
\* value that is not iterable is caught by `except Exception` and gives 500.
receive_status(body) ==
    IF ~body.json THEN 400
    ELSE IF ~Iterable(body.data) THEN 500
    ELSE IF Contains(body.data, "device_id") /\ Contains(body.data, "jwt_token")
    THEN 200
    ELSE 400

\* A handler that answers 200 without storing the body.
store_keeps(old, data) == old

\* CredentialServer.receive_credentials: self.credentials after a body that
\* carries both fields, given what the slot held.
receive_store(old, data) == <<data>>

\* CredentialServer.__init__: the credentials of a new listener, given what
\* the flow's previous listener held.
init_credentials(previous) == <<>>

\* A POST /credentials reaches a listening server.
Post(n, body) ==
    /\ variant = "loopback"
    /\ srvState[n] = "listening"
    /\ response' = receive_status(body)
    /\ IF receive_status(body) = 200
       THEN /\ srvCred' = [srvCred EXCEPT ![n] = receive_store(srvCred[n], body.data)]
            /\ srvEvent' = [srvEvent EXCEPT ![n] = TRUE]
            /\ srvFirst' = [srvFirst EXCEPT ![n] =
                              IF srvFirst[n] = <<>> THEN <<body.data>> ELSE srvFirst[n]]
       ELSE UNCHANGED <<srvCred, srvEvent, srvFirst>>
    /\ UNCHANGED <<credential_server, srvState, fpc, stepSrv, stepStops, result,
                   flowDone>>
    /\ UNCHANGED <<validation, unique_id, validated>>
    /\ UNCHANGED <<variant, proxyVars, waitVars, extractVars, addonVars, coordVars, fanVars>>

\* -------------------------------------------------------------- ConfigFlow

\* What a step handed back, and the step handler that did.
FlowResult(handler, type, step_id, error, title, data) ==
    [handler |-> handler, type |-> type, step_id |-> step_id, error |-> error,
     title |-> title, data |-> data]

NoResult == FlowResult("", "none", "", "", <<>>, <<>>)

\* A title that is only the device id.
title_bare(data) == Get(data, "device_id")

\* validate_input: the title of the entry.
Title(data) == <<"Duux Fan (">> \o Get(data, "device_id") \o <<")">>

\* How the HTTP GET of DuuxApiClient.get_status can end: a 2xx response, a
\* response that is not ok (401 for a bad token), asyncio.TimeoutError, an
\* aiohttp.ClientError (connection refused, DNS), or any other exception.
StatusCalls == {"ok", "http_401", "timeout", "network", "crash"}

\* DuuxApiClient.get_status: what the caller gets for each of them.
get_status(call) ==
    CASE call = "ok" -> "status"
      [] call = "http_401" -> "DuuxApiError"
      [] call = "timeout" -> "DuuxApiError"
      [] call = "network" -> "DuuxApiError"
      [] OTHER -> "Exception"

\* A validation that accepts whatever the status call does.
validate_input_accepts(call) == "none"

\* validate_input: the exception it raises ("none": it returns the title).
validate_input(call) ==
    IF get_status(call) = "DuuxApiError" THEN "InvalidAuth"
    ELSE IF get_status(call) = "status" THEN "none"
    ELSE get_status(call)

NoValidation == [call |-> "none", raised |-> "none"]

\* A manual step that reports every failure as unknown.
manual_error_unknown(raised) == "unknown"

\* async_step_manual_setup: errors["base"] for the exception validate_input
\* raised.
manual_error(raised) ==
    CASE raised = "CannotConnect" -> "cannot_connect"
      [] raised = "InvalidAuth" -> "invalid_auth"
      [] OTHER -> "unknown"

\* What the user types into the manual form (both fields are required
\* strings of STEP_USER_DATA_SCHEMA).
ManualInputs == {Cred(DevA, TokA), Cred(DevB, TokB)}

\* The form the flow manager is showing lets the user submit to step_id;
\* before any result the user step dispatches to either setup step.  The
\* manual step touches no listener, so the flow that chose manual entry
\* is followed on its own.
Showing(step_id) ==
    \/ result = NoResult
    \/ result.type = "form" /\ result.step_id = step_id

FlowInit ==
    /\ credential_server = 0
    /\ srvState = [n \in Servers |-> "unborn"]
    /\ srvCred = [n \in Servers |-> <<>>]
    /\ srvEvent = [n \in Servers |-> FALSE]
    /\ srvFirst = [n \in Servers |-> <<>>]
    /\ response = 0
    /\ fpc = "idle"
    /\ stepSrv = 0
    /\ stepStops = 0
    /\ result = NoResult
    /\ flowDone = FALSE
    /\ validation = NoValidation
    /\ unique_id = <<>>
    /\ validated = <<>>

\* async_step_automated_setup: a new CredentialServer replaces the field,
\* is started, and the progress form is shown; a failure of the constructor
\* or of start() shows the form with server_start_failed.
AutomatedSetup ==
    /\ variant = "loopback"
    /\ fpc = "idle"
    /\ ~flowDone
    /\ \E n \in Servers, outcome \in {"started", "start_failed", "init_failed"} :
         /\ srvState[n] = "unborn"
         /\ \A m \in Servers : m < n => srvState[m] # "unborn"
         /\ IF outcome = "init_failed"
            THEN /\ result' = FlowResult("automated_setup", "form", "automated_setup",
                                         "server_start_failed", <<>>, <<>>)
                 /\ UNCHANGED <<credential_server, srvState, srvCred>>
            ELSE /\ credential_server' = n
                 /\ srvCred' = [srvCred EXCEPT ![n] =
                       init_credentials(IF credential_server = 0 THEN <<>>
                                        ELSE srvCred[credential_server])]
                 /\ IF outcome = "started"
                    THEN /\ srvState' = [srvState EXCEPT ![n] = "listening"]
                         /\ result' = FlowResult("automated_setup", "progress", "automated_setup",
                                                 "", <<>>, <<>>)
                    ELSE /\ srvState' = [srvState EXCEPT ![n] = "failed"]
                         /\ result' = FlowResult("automated_setup", "form", "automated_setup",
                                        "server_start_failed", <<>>, <<>>)
    /\ UNCHANGED <<srvEvent, srvFirst, response, fpc, stepSrv, stepStops, flowDone>>
    /\ UNCHANGED <<validation, unique_id, validated>>
    /\ UNCHANGED <<variant, proxyVars, waitVars, extractVars, addonVars, coordVars, fanVars>>

\* _cleanup_server: the number of stop() calls it makes on reference ref,
\* and the reference it leaves in the field.
cleanup_stops(ref) == IF ref # 0 THEN 1 ELSE 0

\* A _cleanup_server without its finally clause: the reference stays.
cleanup_ref_kept(ref) == ref

cleanup_ref(ref) == 0

\* The state of server n after _cleanup_server ran on reference ref.
Stopped(states, ref) ==
    IF ref # 0 THEN [states EXCEPT ![ref] = "stopped"] ELSE states

\* async_step_waiting_for_script up to its await: without a listener the
\* flow aborts, otherwise it suspends in wait_for_credentials.
WaitingBegin ==
    /\ variant = "loopback"
    /\ fpc = "idle"
    /\ ~flowDone
    /\ stepStops' = 0
    /\ IF credential_server = 0
       THEN /\ result' = FlowResult("waiting_for_script", "abort", "", "server_error", <<>>, <<>>)
            /\ flowDone' = TRUE
            /\ UNCHANGED <<fpc, stepSrv>>
       ELSE /\ fpc' = "waiting"
            /\ stepSrv' = credential_server
            /\ UNCHANGED <<result, flowDone>>
    /\ UNCHANGED <<credential_server, srvState, srvCred, srvEvent, srvFirst,
                   response>>
    /\ UNCHANGED <<validation, unique_id, validated>>
    /\ UNCHANGED <<variant, proxyVars, waitVars, extractVars, addonVars, coordVars, fanVars>>

\* wait_for_credentials timed out: the listener is cleaned up and the flow
\* goes back to the automated-setup step.
WaitingTimeout ==
    /\ variant = "loopback"
    /\ fpc = "waiting"
    /\ stepStops' = stepStops + cleanup_stops(credential_server)
    /\ srvState' = Stopped(srvState, credential_server)
    /\ credential_server' = IF credential_server # 0
                            THEN cleanup_ref(credential_server) ELSE 0
    /\ result' = FlowResult("waiting_for_script", "progress_done", "automated_setup", "", <<>>, <<>>)
    /\ fpc' = "idle"
    /\ stepSrv' = 0
    /\ UNCHANGED <<srvCred, srvEvent, srvFirst, response, flowDone>>
    /\ UNCHANGED <<validation, unique_id, validated>>
    /\ UNCHANGED <<variant, proxyVars, waitVars, extractVars, addonVars, coordVars, fanVars>>

\* A waiting step with the outer handler only.
waiting_error_generic(raised) == "automated_setup_failed"

\* async_step_waiting_for_script: errors["base"] of the manual form for an
\* exception of validate_input (the inner handler takes CannotConnect and
\* InvalidAuth, the outer one everything else).
waiting_error(raised) ==
    IF raised \in {"CannotConnect", "InvalidAuth"}
    THEN "invalid_captured_credentials"
    ELSE "automated_setup_failed"

\* The event was set and the waiting step resumes: it reads the credentials
\* of the server it waits on, cleans the listener up, and validates.
\*   configured: the device already has an entry (AbortFlow is raised
\*               before validate_input is reached);
\*   credentials that are no dict: credentials[CONF_DEVICE_ID] raises
\*               TypeError before validate_input is reached;
\*   call: how the status call of validate_input ends.
WaitingResumeWith(configured, call) ==
    /\ variant = "loopback"
    /\ fpc = "waiting"
    /\ srvEvent[stepSrv]
    /\   LET credentials == srvCred[stepSrv][1]
             raised == validate_input(call)
             ref1 == IF credential_server # 0
                     THEN cleanup_ref(credential_server) ELSE 0
             states1 == Stopped(srvState, credential_server)
             stops1 == cleanup_stops(credential_server)
             \* the except block of line 240 runs _cleanup_server again
             early == ~IsDict(credentials) \/ configured
             caught == early \/ raised = "Exception"
             ref2 == IF caught /\ ref1 # 0 THEN cleanup_ref(ref1) ELSE ref1
             states2 == IF caught THEN Stopped(states1, ref1) ELSE states1
             stops2 == IF caught THEN cleanup_stops(ref1) ELSE 0
         IN  /\ stepStops' = stepStops + stops1 + stops2
             /\ srvState' = states2
             /\ credential_server' = ref2
             /\ unique_id' = IF IsDict(credentials)
                             THEN credentials.device_id ELSE unique_id
             /\ validated' = IF early THEN validated ELSE <<credentials>>
             /\ validation' = IF early THEN validation
                              ELSE [call |-> call, raised |-> raised]
             /\ IF caught
                THEN /\ result' = FlowResult("waiting_for_script", "form", "manual_setup",
                                     "automated_setup_failed", <<>>, <<>>)
                     /\ UNCHANGED flowDone
                ELSE IF raised \in {"CannotConnect", "InvalidAuth"}
                THEN /\ result' = FlowResult("waiting_for_script", "form", "manual_setup",
                                     waiting_error(raised), <<>>, <<>>)
                     /\ UNCHANGED flowDone
                ELSE /\ result' = FlowResult("waiting_for_script", "create_entry", "", "",
                                     Title(credentials), <<credentials>>)
                     /\ flowDone' = TRUE
    /\ fpc' = "idle"
    /\ stepSrv' = 0
    /\ UNCHANGED <<srvCred, srvEvent, srvFirst, response>>
    /\ UNCHANGED <<variant, proxyVars, waitVars, extractVars, addonVars, coordVars, fanVars>>

WaitingResume ==
    \E configured \in BOOLEAN, call \in StatusCalls :
        WaitingResumeWith(configured, call)

\* wait_for_credentials raised something other than its own timeout: the
\* except block cleans the listener up and shows the manual form.
WaitingError ==
    /\ variant = "loopback"
    /\ fpc = "waiting"
    /\ stepStops' = stepStops + cleanup_stops(credential_server)
    /\ srvState' = Stopped(srvState, credential_server)
    /\ credential_server' = IF credential_server # 0
                            THEN cleanup_ref(credential_server) ELSE 0
    /\ result' = FlowResult("waiting_for_script", "form", "manual_setup",
                            "automated_setup_failed", <<>>, <<>>)
    /\ fpc' = "idle"
    /\ stepSrv' = 0
    /\ UNCHANGED <<srvCred, srvEvent, srvFirst, response, flowDone>>
    /\ UNCHANGED <<validation, unique_id, validated>>
    /\ UNCHANGED <<variant, proxyVars, waitVars, extractVars, addonVars, coordVars, fanVars>>

\* The task running the waiting step is cancelled while it is suspended in
\* wait_for_credentials (the user closes the dialog).  CancelledError is
\* raised at the await; it is a BaseException, so the `except Exception`
\* block is not entered and the step has no other handler: nothing is
\* cleaned up, and the flow manager discards the flow.
WaitingCancelled ==
    /\ variant = "loopback"
    /\ fpc = "waiting"
    /\ result' = FlowResult("waiting_for_script", "cancelled", "", "", <<>>, <<>>)
    /\ fpc' = "idle"
    /\ stepSrv' = 0
    /\ flowDone' = TRUE
    /\ UNCHANGED <<credential_server, srvState, srvCred, srvEvent, srvFirst,
                   response, stepStops>>
    /\ UNCHANGED <<validation, unique_id, validated>>
    /\ UNCHANGED <<variant, proxyVars, waitVars, extractVars, addonVars, coordVars, fanVars>>

\* async_step_manual_setup without input (reached from async_step_user
\* with setup_method manual): the empty form.
ManualForm ==
    /\ variant = "manual"
    /\ fpc = "idle"
    /\ ~flowDone
    /\ result = NoResult
    /\ result' = FlowResult("manual_setup", "form", "manual_setup", "", <<>>, <<>>)
    /\ UNCHANGED <<credential_server, srvState, srvCred, srvEvent, srvFirst,
                   response, fpc, stepSrv, stepStops, flowDone, validation,
                   unique_id, validated>>
    /\ UNCHANGED <<variant, proxyVars, waitVars, extractVars, addonVars, coordVars, fanVars>>

\* async_step_manual_setup with the submitted form.
\*   configured: the device already has an entry; AbortFlow is raised
\*               outside the try block and aborts the flow;
\*   call: how the status call of validate_input ends.
ManualSetup(user_input, configured, call) ==
    /\ variant = "manual"
    /\ fpc = "idle"
    /\ ~flowDone
    /\ Showing("manual_setup")
    /\ unique_id' = user_input.device_id
    /\   LET raised == validate_input(call)
         IN  IF configured
             THEN /\ result' = FlowResult("manual_setup", "abort", "", "already_configured",
                                          <<>>, <<>>)
                  /\ flowDone' = TRUE
                  /\ UNCHANGED <<validation, validated>>
             ELSE /\ validation' = [call |-> call, raised |-> raised]
                  /\ validated' = <<user_input>>
                  /\ IF raised = "none"
                     THEN /\ result' = FlowResult("manual_setup", "create_entry", "", "",
                                                  Title(user_input), <<user_input>>)
                          /\ flowDone' = TRUE
                     ELSE /\ result' = FlowResult("manual_setup", "form", "manual_setup",
                                                  manual_error(raised), <<>>, <<>>)
                          /\ UNCHANGED flowDone
    /\ UNCHANGED <<credential_server, srvState, srvCred, srvEvent, srvFirst,
                   response, fpc, stepSrv, stepStops>>
    /\ UNCHANGED <<variant, proxyVars, waitVars, extractVars, addonVars, coordVars, fanVars>>

FlowNext ==
    \/ AutomatedSetup
    \/ ManualForm
    \/ \E user_input \in ManualInputs, configured \in BOOLEAN, call \in StatusCalls :
          ManualSetup(user_input, configured, call)
    \/ WaitingBegin
    \/ WaitingTimeout
    \/ WaitingResume
    \/ WaitingError
    \/ WaitingCancelled
    \/ \E n \in Servers : \E body \in Bodies(n) : Post(n, body)

\* --------------------------------------------- wait_for_credentials, timed

\* asyncio.sleep(1) of the polling loop.
PollSeconds == 1
PollTicks == PollSeconds * TicksPerSecond

\* The clock stops once every call that can be made has returned.
MaxTime == MaxT + PollTicks + 1

\* What the hand-off file holds while the addon is still writing it: text
\* json.load rejects.
PartialFile == <<[partial |-> TRUE]>>

\* A hand-off file that exists but cannot be opened for reading.
UnreadableFile == <<[unreadable |-> TRUE]>>

\* open() and json.load() on the file: the exception they raise, or "dict"
\* for a file that parses ("absent": os.path.exists is false).
read_file(file) ==
    IF file = <<>> THEN "absent"
    ELSE IF file = UnreadableFile THEN "OSError"
    ELSE IF file = PartialFile THEN "JSONDecodeError"
    ELSE "dict"

\* A polling loop without its except clause.
catches_nothing(exc) == FALSE

\* The except clause of the polling loop: (json.JSONDecodeError, OSError).
wait_catches(exc) == exc \in {"JSONDecodeError", "OSError"}

WaitIdle ==
    /\ now = 0
    /\ wKind = "none"
    /\ wT = 0
    /\ wpc = "new"
    /\ wStart = 0
    /\ wWake = 0
    /\ wResult = <<>>
    /\ wRetTime = 0
    /\ wReported = FALSE
    /\ wWarned = FALSE
    /\ fillTime = -1

\* One call of wait_for_credentials, of the manager or of a listener, on
\* an empty hand-off slot.
TimedInit ==
    /\ ProxyIdle
    /\ FlowInit
    /\ now = 0
    /\ wKind \in {"file", "event"}
    /\ wT = 0
    /\ wpc = "new"
    /\ wStart = 0
    /\ wWake = 0
    /\ wResult = <<>>
    /\ wRetTime = 0
    /\ wReported = FALSE
    /\ wWarned = FALSE
    /\ fillTime = -1

\* A polling loop that never gives up.
loop_forever(elapsed, timeout) == TRUE

\* The condition of the polling loop: loop.time() - start_time < timeout.
loop_continues(elapsed, timeout) == elapsed < timeout

\* One pass of ProxyManager.wait_for_credentials at clock `now`: the loop
\* condition, the check of the file, and either a return, an exception
\* that escapes, or a logged warning and the next sleep.
FilePass ==
    IF loop_continues(now - wStart', wT')
    THEN IF read_file(credFile) = "dict" /\ Valid(credFile)
         THEN /\ wResult' = credFile
              /\ wReported' = TRUE
              /\ wRetTime' = now
              /\ wpc' = "done"
              /\ UNCHANGED <<wWake, wWarned>>
         ELSE IF /\ read_file(credFile) \notin {"absent", "dict"}
                 /\ ~wait_catches(read_file(credFile))
         THEN /\ wpc' = "raised"
              /\ wRetTime' = now
              /\ UNCHANGED <<wResult, wReported, wWake, wWarned>>
         ELSE /\ wWake' = now + PollTicks
              /\ wpc' = "sleeping"
              /\ wWarned' = (wWarned \/ read_file(credFile) \notin {"absent", "dict"})
              /\ UNCHANGED <<wResult, wReported, wRetTime>>
    ELSE /\ wResult' = <<>>
         /\ wRetTime' = now
         /\ wpc' = "done"
         /\ UNCHANGED <<wReported, wWarned, wWake>>

\* wait_for_credentials(timeout) is called, in either variant.
TimedCall(timeout) ==
    /\ variant = "timed"
    /\ wpc = "new"
    /\ wT' = timeout
    /\ wStart' = now
    /\ IF wKind = "file"
       THEN FilePass
       ELSE /\ wpc' = "waiting"
            /\ UNCHANGED <<wWake, wResult, wRetTime, wReported, wWarned>>
    /\ UNCHANGED <<now, wKind, fillTime>>
    /\ UNCHANGED <<variant, proxyVars, flowVars, extractVars, addonVars, coordVars, fanVars>>

\* asyncio.sleep(1) is over: the next pass of the loop.
TimedPoll ==
    /\ variant = "timed"
    /\ wpc = "sleeping"
    /\ now = wWake
    /\ UNCHANGED <<wT, wStart>>
    /\ FilePass
    /\ UNCHANGED <<now, wKind, fillTime>>
    /\ UNCHANGED <<variant, proxyVars, flowVars, extractVars, addonVars, coordVars, fanVars>>

\* CredentialServer.wait_for_credentials: the event wait completed.
TimedEventResume ==
    /\ variant = "timed"
    /\ wpc = "waiting"
    /\ srvEvent[1]
    /\ wResult' = srvCred[1]
    /\ wReported' = TRUE
    /\ wRetTime' = now
    /\ wpc' = "done"
    /\ UNCHANGED <<now, wKind, wT, wStart, wWake, wWarned, fillTime>>
    /\ UNCHANGED <<variant, proxyVars, flowVars, extractVars, addonVars, coordVars, fanVars>>

\* CredentialServer.wait_for_credentials: asyncio.wait_for timed out.  When
\* the event is set in the same loop iteration, either may come first.
TimedEventTimeout ==
    /\ variant = "timed"
    /\ wpc = "waiting"
    /\ now - wStart >= wT
    /\ wResult' = <<>>
    /\ wRetTime' = now
    /\ wpc' = "done"
    /\ UNCHANGED <<now, wKind, wT, wStart, wWake, wReported, wWarned, fillTime>>
    /\ UNCHANGED <<variant, proxyVars, flowVars, extractVars, addonVars, coordVars, fanVars>>

\* The hand-off file changes: it is unreadable or partially written for a
\* while, then complete.
TimedWrite(content) ==
    /\ variant = "timed"
    /\ wKind = "file"
    /\ wpc \notin {"done", "raised"}
    /\ ~Valid(credFile)
    /\ credFile # content
    /\ credFile' = content
    /\ fillTime' = IF Valid(content) /\ fillTime = -1 THEN now ELSE fillTime
    /\ UNCHANGED <<proxy_port, proxy_process, running, procState, procPort,
                   captured, pc, awaited, cmdPort, pending, ret, session,
                   fileSession>>
    /\ UNCHANGED <<now, wKind, wT, wpc, wStart, wWake, wResult, wRetTime,
                   wReported, wWarned>>
    /\ UNCHANGED <<variant, flowVars, extractVars, addonVars, coordVars, fanVars>>

\* The script posts to the listener.
TimedPost(body) ==
    /\ variant = "timed"
    /\ wKind = "event"
    /\ wpc # "done"
    /\ ~srvEvent[1]
    /\ response' = receive_status(body)
    /\ receive_status(body) = 200
    /\ srvCred' = [srvCred EXCEPT ![1] = receive_store(srvCred[1], body.data)]
    /\ srvEvent' = [srvEvent EXCEPT ![1] = TRUE]
    /\ fillTime' = now
    /\ UNCHANGED <<credential_server, srvState, srvFirst, fpc, stepSrv,
                   stepStops, result, flowDone, validation,
                   unique_id, validated>>
    /\ UNCHANGED <<now, wKind, wT, wpc, wStart, wWake, wResult, wRetTime,
                   wReported, wWarned>>
    /\ UNCHANGED <<variant, proxyVars, extractVars, addonVars, coordVars, fanVars>>

\* A coroutine that is due runs before the clock moves on.
Due ==
    \/ wpc = "sleeping" /\ now >= wWake
    \/ wpc = "waiting" /\ (srvEvent[1] \/ now - wStart >= wT)

Tick ==
    /\ variant = "timed"
    /\ wpc \notin {"done", "raised"}
    /\ now < MaxTime
    /\ ~Due
    /\ now' = now + 1
    /\ UNCHANGED <<wKind, wT, wpc, wStart, wWake, wResult, wRetTime, wReported, wWarned,
                   fillTime>>
    /\ UNCHANGED <<variant, proxyVars, flowVars, extractVars, addonVars, coordVars, fanVars>>

TimedNext ==
    \/ \E timeout \in 0..MaxT : TimedCall(timeout)
    \/ TimedPoll
    \/ TimedEventResume
    \/ TimedEventTimeout
    \/ \E content \in {PartialFile, UnreadableFile, <<Cred(DevA, TokA)>>} :
          TimedWrite(content)
    \/ \E body \in Bodies(1) : TimedPost(body)
    \/ Tick

\* ------------------------------------------------ the addon's request hook

\* The requests one addon is shown: every combination of a host, an
\* Authorization header and a path put together from the pieces below.
AHosts == {DUUX_API_HOST, "api.cloudgarden.nl"}

ATokens == {TokA, <<"t"," ","k">>}

AAuths ==
    {NoHeader, <<>>, BearerPrefix, TokA,
     <<"B","a","s","i","c"," ","a","b","c","d">>,
     <<"b","e","a","r","e","r"," ">> \o TokA}
    \cup {Bearer(t) : t \in ATokens}

AIds == {<<>>, DevA, <<"A","F">>, <<"a","g">>, <<"a","/","b">>}

\* /data/<id>/status for each id, and paths that differ from that form
\* before, inside or after it.
APaths ==
    {DataPrefix \o id \o StatusSuffix : id \in AIds}
    \cup {<<"/","v","2">> \o StatusPath(DevA),
          StatusPath(DevA) \o <<"?","x">>,
          <<"/","s","e","n","s","o","r","/">> \o DevA \o StatusSuffix,
          DataPrefix \o DevA \o <<"/","s","t","a","t","e">>}

ARequests ==
    {[host |-> h, auth |-> a, path |-> q] :
        h \in AHosts, a \in AAuths, q \in APaths}

\* An intercepted flow: its request, and whether it is still to be
\* forwarded (mitmproxy drops a flow a hook has killed).
Flow(req) == [request |-> req, live |-> TRUE]

NoFlow == Flow([host |-> "", auth |-> NoHeader, path |-> <<>>])

AddonIdle ==
    /\ aPc = "idle"
    /\ aFlow = NoFlow
    /\ aStored = EmptyDict
    /\ aFile = <<>>

\* mitmproxy has read a request of the client and is about to call the
\* hook with its flow.
AddonIntercept(req) ==
    /\ variant = "addon"
    /\ aPc = "idle"
    /\ aFlow' = Flow(req)
    /\ aPc' = "hook"
    /\ UNCHANGED <<aStored, aFile>>
    /\ UNCHANGED <<variant, proxyVars, flowVars, waitVars, extractVars, coordVars, fanVars>>

\* A hook that kills the flow it is shown.
hook_kills(flow) == [flow EXCEPT !.live = FALSE]

\* DuuxCredentialCapture.request: what it does to the flow it is given.
\* It reads pretty_host, the header and the path, and assigns nothing.
hook_flow(flow) == flow

\* DuuxCredentialCapture.request(flow) runs: a request that passes the
\* filter is stored and written to the file, any other changes nothing;
\* then mitmproxy forwards the flow.
AddonHook ==
    /\ variant = "addon"
    /\ aPc = "hook"
    /\ LET c == Capture(aFlow.request)
       IN  IF c = <<>>
           THEN UNCHANGED <<aStored, aFile>>
           ELSE /\ aStored' = c[1]
                /\ aFile' = c
    /\ aFlow' = hook_flow(aFlow)
    /\ aPc' = "idle"
    /\ UNCHANGED <<variant, proxyVars, flowVars, waitVars, extractVars, coordVars, fanVars>>

AddonNext ==
    \/ \E req \in ARequests : AddonIntercept(req)
    \/ AddonHook

\* ------------------------------------------------- standalone extractor

NoPost == [state |-> "none", body |-> <<>>]

\* No extractor runs.
ExtractIdle ==
    /\ ha_endpoint = FALSE
    /\ xCaptured = <<>>
    /\ xRunning = FALSE
    /\ xProxy = "off"
    /\ xMonitor = "off"
    /\ xMain = "off"
    /\ xPost = NoPost
    /\ xSigints = 0

\* Ctrl+C presses in a run.
MaxSigints == 2

\* main() has built the extractor (no proxy master, running False),
\* installed the SIGINT handler and called start_proxy, which has not yet
\* created the proxy master.
ExtractInit ==
    /\ ProxyIdle
    /\ FlowInit
    /\ WaitIdle
    /\ ha_endpoint \in BOOLEAN
    /\ xCaptured = <<>>
    /\ xRunning = FALSE
    /\ xProxy = "off"
    /\ xMonitor = "off"
    /\ xMain = "starting"
    /\ xPost = NoPost
    /\ xSigints = 0

\* start_proxy creates the proxy master, sets running, creates the proxy
\* task and the monitor task and suspends in asyncio.wait(FIRST_COMPLETED).
XStart ==
    /\ variant = "extract"
    /\ xMain = "starting"
    /\ xRunning' = TRUE
    /\ xProxy' = "running"
    /\ xMonitor' = "loop"
    /\ xMain' = "waiting"
    /\ UNCHANGED <<ha_endpoint, xCaptured, xPost, xSigints>>
    /\ UNCHANGED <<variant, proxyVars, flowVars, waitVars, addonVars, coordVars, fanVars>>

\* proxy_master.shutdown() on the state of the proxy task: a running
\* master is asked to stop; there is nothing to stop otherwise.
shutdown(proxy) == IF proxy = "running" THEN "stopping" ELSE proxy

\* Ctrl+C: the SIGINT handler of main() calls stop_proxy, which clears
\* running and shuts the proxy master down if there is one.
XStopProxy ==
    /\ variant = "extract"
    /\ xMain \in {"starting", "waiting"}
    /\ xSigints < MaxSigints
    /\ xSigints' = xSigints + 1
    /\ xRunning' = FALSE
    /\ xProxy' = IF xProxy # "off" THEN shutdown(xProxy) ELSE xProxy
    /\ UNCHANGED <<ha_endpoint, xCaptured, xMonitor, xMain, xPost>>
    /\ UNCHANGED <<variant, proxyVars, flowVars, waitVars, addonVars, coordVars, fanVars>>

\* The script's addon sees one request of the running proxy: the same
\* filter as the integration's addon, stored in memory only.
XRequest(req) ==
    /\ variant = "extract"
    /\ xProxy = "running"
    /\ xCaptured' = IF Capture(req) = <<>> THEN xCaptured ELSE Capture(req)
    /\ UNCHANGED <<ha_endpoint, xRunning, xProxy, xMonitor, xMain, xPost,
                   xSigints>>
    /\ UNCHANGED <<variant, proxyVars, flowVars, waitVars, addonVars, coordVars, fanVars>>

\* One pass of _monitor_capture, up to its next await: once the addon has
\* credentials it clears running, asks the proxy master to shut down, and
\* either suspends in the POST of send_to_ha or ends.
XMonitorPass ==
    /\ variant = "extract"
    /\ xMonitor = "loop"
    /\ IF ~xRunning
       THEN /\ xMonitor' = "finished"
            /\ UNCHANGED <<xRunning, xProxy, xPost>>
       ELSE IF xCaptured # <<>>
       THEN /\ xRunning' = FALSE
            /\ xProxy' = shutdown(xProxy)
            /\ IF ha_endpoint
               THEN /\ xMonitor' = "posting"
                    /\ xPost' = [state |-> "sent", body |-> xCaptured]
               ELSE /\ xMonitor' = "finished"
                    /\ UNCHANGED xPost
       ELSE UNCHANGED <<xRunning, xProxy, xMonitor, xPost>>
    /\ UNCHANGED <<ha_endpoint, xCaptured, xMain, xSigints>>
    /\ UNCHANGED <<variant, proxyVars, flowVars, waitVars, addonVars, coordVars, fanVars>>

\* The POST of send_to_ha ends: a response arrived (200 or not), or the
\* request failed and the except clauses printed the error.
PostEnds == {"responded_200", "responded_400", "timeout", "error"}

XPostDone(how) ==
    /\ variant = "extract"
    /\ xMonitor = "posting"
    /\ xPost' = [xPost EXCEPT !.state = how]
    /\ xMonitor' = "finished"
    /\ UNCHANGED <<ha_endpoint, xCaptured, xRunning, xProxy, xMain, xSigints>>
    /\ UNCHANGED <<variant, proxyVars, flowVars, waitVars, addonVars, coordVars, fanVars>>

\* proxy_master.run() returns after shutdown() was requested.
XProxyExit ==
    /\ variant = "extract"
    /\ xProxy = "stopping"
    /\ xProxy' = "finished"
    /\ UNCHANGED <<ha_endpoint, xCaptured, xRunning, xMonitor, xMain, xPost,
                   xSigints>>
    /\ UNCHANGED <<variant, proxyVars, flowVars, waitVars, addonVars, coordVars, fanVars>>

\* A task that is still pending when asyncio.wait returns is cancelled and
\* awaited: the state of the monitor task, and of its POST, afterwards.
\* CancelledError is not caught by the except clauses of send_to_ha.
cancel_pending(task) ==
    IF task \in {"finished", "cancelled"} THEN task ELSE "cancelled"

\* asyncio.wait returns because one task is done; start_proxy cancels the
\* other and returns.
XWaitReturns ==
    /\ variant = "extract"
    /\ xMain = "waiting"
    /\ xProxy = "finished" \/ xMonitor = "finished"
    /\ xProxy' = cancel_pending(xProxy)
    /\ xMonitor' = cancel_pending(xMonitor)
    /\ xPost' = IF xMonitor = "posting" /\ cancel_pending(xMonitor) = "cancelled"
                THEN [xPost EXCEPT !.state = "cancelled"] ELSE xPost
    /\ xMain' = "returned"
    /\ UNCHANGED <<ha_endpoint, xCaptured, xRunning, xSigints>>
    /\ UNCHANGED <<variant, proxyVars, flowVars, waitVars, addonVars, coordVars, fanVars>>

ExtractNext ==
    \/ XStart
    \/ XStopProxy
    \/ \E req \in Requests : XRequest(req)
    \/ XMonitorPass
    \/ \E how \in PostEnds : XPostDone(how)
    \/ XProxyExit
    \/ XWaitReturns

\* ------------------------------------------------------------------- spec

\* ---------------------------------------------- DuuxDataUpdateCoordinator

\* Consecutive authentication failures counted in a run.
MaxFailures == 5

\* str(err) of the DuuxApiError that DuuxApiClient.get_status raises.
\* get_status on a 401 answer whose body is {"message": "Unauthorized"}
UnauthorizedMessage ==
    <<"S","t","a","t","u","s"," ","r","e","q","u","e","s","t"," ","f","a",
      "i","l","e","d",":"," ","{","'","m","e","s","s","a","g","e","'",":",
      " ","'","U","n","a","u","t","h","o","r","i","z","e","d","'","}">>

\* get_status on a 403 answer whose body is {"error": "Token expired"}
ExpiredMessage ==
    <<"S","t","a","t","u","s"," ","r","e","q","u","e","s","t"," ","f","a",
      "i","l","e","d",":"," ","{","'","e","r","r","o","r","'",":"," ","'",
      "T","o","k","e","n"," ","e","x","p","i","r","e","d","'","}">>

\* get_status on a 500 answer
ServerErrorMessage ==
    <<"S","t","a","t","u","s"," ","r","e","q","u","e","s","t"," ","f","a",
      "i","l","e","d",":"," ","{","'","m","e","s","s","a","g","e","'",":",
      " ","'","I","n","t","e","r","n","a","l"," ","S","e","r","v","e","r",
      " ","E","r","r","o","r","'","}">>

\* get_status on asyncio.TimeoutError
TimeoutMessage ==
    <<"T","i","m","e","o","u","t"," ","c","o","n","n","e","c","t","i","n",
      "g"," ","t","o"," ","D","u","u","x"," ","A","P","I">>

ErrorMessages ==
    {UnauthorizedMessage, ExpiredMessage, ServerErrorMessage, TimeoutMessage}

\* str.lower() on the letters that occur in the messages.
ToLower ==
    [A |-> "a", D |-> "d", E |-> "e", I |-> "i", P |-> "p", S |-> "s", T |-> "t", U |-> "u"]

lower(s) ==
    [i \in 1..Len(s) |-> IF s[i] \in DOMAIN ToLower THEN ToLower[s[i]] ELSE s[i]]

\* Python's `sub in s` on strings.
Substring(sub, s) ==
    \E i \in 1..(Len(s) - Len(sub) + 1) :
        \A j \in 1..Len(sub) : s[i + j - 1] = sub[j]

auth_error_indicators ==
    { <<"u","n","a","u","t","h","o","r","i","z","e","d">>,
      <<"i","n","v","a","l","i","d"," ","t","o","k","e","n">>,
      <<"a","u","t","h","e","n","t","i","c","a","t","i","o","n"," ",
        "f","a","i","l","e","d">>,
      <<"4","0","1">>,
      <<"4","0","3">>,
      <<"t","o","k","e","n"," ","e","x","p","i","r","e","d">> }

\* A classifier that takes every API error for an authentication error.
is_auth_error_any(error_message) == TRUE

\* _is_auth_error
is_auth_error(error_message) ==
    \E indicator \in auth_error_indicators :
        Substring(indicator, lower(error_message))

\* The JSON of a 2xx answer of the status endpoint: with and without data.
StatusData == [power |-> 1, speed |-> 10]
Responses == {[data |-> StatusData], [message |-> "ok"]}

\* Failures after which the repair issue is created.
AuthFailureThreshold == 3

\* A coordinator that creates the issue at the first failure.
should_create_first(count, created) == ~created

\* A coordinator that creates the issue at every failure past the
\* threshold.
should_create_every(count, created) == count >= AuthFailureThreshold

\* The condition of line 62.
should_create(count, created) == count >= AuthFailureThreshold /\ ~created

\* A successful update that keeps the count.
reset_keeps(count) == count

\* The reset of line 50.
reset_count(count) == 0

\* The messages of the two UpdateFailed the method raises.
InvalidResponseMessage ==
    <<"I","n","v","a","l","i","d"," ","r","e","s","p","o","n","s","e"," ",
      "f","r","o","m"," ","D","u","u","x"," ","A","P","I">>
CommunicationPrefix ==
    <<"E","r","r","o","r"," ","c","o","m","m","u","n","i","c","a","t","i",
      "n","g"," ","w","i","t","h"," ","D","u","u","x"," ","A","P","I",":",
      " ">>

\* The outcome of an update: the data returned, or the message of the
\* UpdateFailed raised.
Updated(kind, data, message) == [kind |-> kind, data |-> data, message |-> message]
NoCalls == [create |-> 0, delete |-> 0]

CoordIdle ==
    /\ auth_failure_count = 0
    /\ repair_issue_created = FALSE
    /\ issue = FALSE
    /\ updated = Updated("none", <<>>, <<>>)
    /\ issueCalls = NoCalls

\* DuuxDataUpdateCoordinator.__init__
CoordInit == CoordIdle

\* _async_update_data when get_status returns the JSON of a 2xx answer.
\* Everything after the one await runs without suspension.
UpdateResponse(resp) ==
    /\ variant = "coordinator"
    /\ IF "data" \notin DOMAIN resp
       THEN /\ updated' = Updated("UpdateFailed", <<>>, InvalidResponseMessage)
            /\ issueCalls' = NoCalls
            /\ UNCHANGED <<auth_failure_count, repair_issue_created, issue>>
       ELSE /\ updated' = Updated("data", <<resp.data>>, <<>>)
            /\ IF auth_failure_count > 0
               THEN /\ auth_failure_count' = reset_count(auth_failure_count)
                    /\ IF repair_issue_created
                       THEN /\ issue' = FALSE
                            /\ issueCalls' = [create |-> 0, delete |-> 1]
                            /\ repair_issue_created' = FALSE
                       ELSE /\ issueCalls' = NoCalls
                            /\ UNCHANGED <<issue, repair_issue_created>>
               ELSE /\ issueCalls' = NoCalls
                    /\ UNCHANGED <<auth_failure_count, repair_issue_created, issue>>
    /\ UNCHANGED <<variant, proxyVars, flowVars, waitVars, extractVars, addonVars, fanVars>>

\* _async_update_data when get_status raises DuuxApiError(error_message).
UpdateError(error_message) ==
    /\ variant = "coordinator"
    /\ auth_failure_count < MaxFailures
    /\ updated' = Updated("UpdateFailed", <<>>, CommunicationPrefix \o error_message)
    /\ IF is_auth_error(error_message)
       THEN /\ auth_failure_count' = auth_failure_count + 1
            /\ IF should_create(auth_failure_count', repair_issue_created)
               THEN /\ issue' = TRUE
                    /\ issueCalls' = [create |-> 1, delete |-> 0]
                    /\ repair_issue_created' = TRUE
               ELSE /\ issueCalls' = NoCalls
                    /\ UNCHANGED <<issue, repair_issue_created>>
       ELSE /\ issueCalls' = NoCalls
            /\ UNCHANGED <<auth_failure_count, repair_issue_created, issue>>
    /\ UNCHANGED <<variant, proxyVars, flowVars, waitVars, extractVars, addonVars, fanVars>>

CoordNext ==
    \/ \E resp \in Responses : UpdateResponse(resp)
    \/ \E error_message \in ErrorMessages : UpdateError(error_message)

\* ------------------------------------------------- DuuxApiClient, DuuxFan

\* The speeds of the device (api.py checks the literals, fan.py takes
\* SPEED_RANGE from const.py).
MinSpeed == 1
MaxSpeed == 30
MIN_FAN_SPEED == 1
MAX_FAN_SPEED == 30

\* The percentages of a Home Assistant fan entity that run the fan.
MIN_PERCENTAGE == 1
MAX_PERCENTAGE == 100
Percentages == MIN_PERCENTAGE..MAX_PERCENTAGE

\* percentage: int | None = None
NoPercentage == -1

\* How far beyond the valid range set_speed is called.
SpeedMargin == 3
SpeedInputs == (MinSpeed - SpeedMargin)..(MaxSpeed + SpeedMargin)

\* The POST of send_command: {"command": "tune set <parameter> <value>"}.
Command(parameter, value) == [parameter |-> parameter, value |-> value]

\* A client that accepts every speed.
speed_valid_any(speed) == TRUE

\* set_speed: 1 <= speed <= 30.
speed_valid(speed) == MinSpeed <= speed /\ speed <= MaxSpeed

\* homeassistant.util.percentage.percentage_to_ranged_value on
\* SPEED_RANGE: states * percentage / 100 + offset, a float; here in
\* hundredths, which are exact.
states_in_range(low, high) == high - low + 1
percentage_to_ranged_value(low, high, percentage) ==
    states_in_range(low, high) * percentage + (low - 1) * 100

\* int() of a non-negative float given in hundredths: truncation.
int(hundredths) == hundredths \div 100

\* What the entity passes to set_speed for a percentage.
speed_of(percentage) ==
    int(percentage_to_ranged_value(MIN_FAN_SPEED, MAX_FAN_SPEED, percentage))

\* str(err) of the DuuxApiError of send_command on a 401 answer whose body
\* is {"message": "Unauthorized"}.
CommandFailedMessage ==
    <<"C","o","m","m","a","n","d"," ","f","a","i","l","e","d",":"," ","{",
      "'","m","e","s","s","a","g","e","'",":"," ","'","U","n","a","u","t",
      "h","o","r","i","z","e","d","'","}">>

\* How the POSTs of a call go: all answered, or the k-th raises
\* DuuxApiError with a message.
NoFailure == [at |-> 0, message |-> <<>>]
Failures ==
    {NoFailure} \cup [at : 1..2, message : {CommandFailedMessage, TimeoutMessage}]

\* _handle_api_error of the entity: the issue registry after it.
handle_api_error(registry, error_message) ==
    registry \/ is_auth_error(error_message)

FanCall(op, arg) == [op |-> op, arg |-> arg]

FanIdle ==
    /\ fCall = FanCall("none", 0)
    /\ sent = <<>>
    /\ refreshes = 0
    /\ fRaised = "none"

\* DuuxApiClient.set_speed(speed), called directly.
ApiSetSpeed(speed, failure) ==
    /\ variant = "fan"
    /\ failure.at \in {0, 1}
    /\ fCall' = FanCall("set_speed", speed)
    /\ refreshes' = 0
    /\ IF ~speed_valid(speed)
       THEN sent' = <<>> /\ fRaised' = "ValueError"
       ELSE /\ sent' = <<Command("speed", speed)>>
            /\ fRaised' = IF failure.at = 1 THEN "DuuxApiError" ELSE "none"
    /\ UNCHANGED <<variant, proxyVars, flowVars, waitVars, extractVars, addonVars,
                   coordVars>>

\* DuuxFan.async_set_percentage(percentage).
FanSetPercentage(percentage, failure) ==
    /\ variant = "fan"
    /\ failure.at \in {0, 1}
    /\ fCall' = FanCall("set_percentage", percentage)
    /\ IF ~speed_valid(speed_of(percentage))
       THEN /\ sent' = <<>>
            /\ refreshes' = 0
            /\ fRaised' = "ValueError"
            /\ UNCHANGED issue
       ELSE /\ sent' = <<Command("speed", speed_of(percentage))>>
            /\ fRaised' = "none"
            /\ IF failure.at = 1
               THEN /\ refreshes' = 0
                    /\ issue' = handle_api_error(issue, failure.message)
               ELSE /\ refreshes' = 1
                    /\ UNCHANGED issue
    /\ UNCHANGED <<auth_failure_count, repair_issue_created, updated, issueCalls>>
    /\ UNCHANGED <<variant, proxyVars, flowVars, waitVars, extractVars, addonVars>>

\* DuuxFan.async_turn_on(percentage): the power command, then the speed
\* when a percentage is given, then the refresh.
FanTurnOn(percentage, failure) ==
    /\ variant = "fan"
    /\ percentage = NoPercentage => failure.at \in {0, 1}
    /\ fCall' = FanCall("turn_on", percentage)
    /\ IF failure.at = 1
       THEN /\ sent' = <<Command("power", 1)>>
            /\ refreshes' = 0
            /\ fRaised' = "none"
            /\ issue' = handle_api_error(issue, failure.message)
       ELSE IF percentage = NoPercentage
       THEN /\ sent' = <<Command("power", 1)>>
            /\ refreshes' = 1
            /\ fRaised' = "none"
            /\ UNCHANGED issue
       ELSE IF ~speed_valid(speed_of(percentage))
       THEN /\ sent' = <<Command("power", 1)>>
            /\ refreshes' = 0
            /\ fRaised' = "ValueError"
            /\ UNCHANGED issue
       ELSE /\ sent' = <<Command("power", 1), Command("speed", speed_of(percentage))>>
            /\ fRaised' = "none"
            /\ IF failure.at = 2
               THEN /\ refreshes' = 0
                    /\ issue' = handle_api_error(issue, failure.message)
               ELSE /\ refreshes' = 1
                    /\ UNCHANGED issue
    /\ UNCHANGED <<auth_failure_count, repair_issue_created, updated, issueCalls>>
    /\ UNCHANGED <<variant, proxyVars, flowVars, waitVars, extractVars, addonVars>>

\* DuuxNaturalWindSwitch.async_turn_on / async_turn_off: the mode command,
\* then the refresh request; a DuuxApiError goes to _handle_api_error.
\* The switch belongs to the same config entry as the coordinator.
SwitchCommand(mode, failure) ==
    /\ variant = "coordinator"
    /\ failure.at \in {0, 1}
    /\ fCall' = FanCall("switch", mode)
    /\ sent' = <<Command("mode", mode)>>
    /\ fRaised' = "none"
    /\ IF failure.at = 1
       THEN /\ refreshes' = 0
            /\ issue' = handle_api_error(issue, failure.message)
       ELSE /\ refreshes' = 1
            /\ UNCHANGED issue
    /\ UNCHANGED <<auth_failure_count, repair_issue_created, updated, issueCalls>>
    /\ UNCHANGED <<variant, proxyVars, flowVars, waitVars, extractVars, addonVars>>

FanNext ==
    \/ \E mode \in {0, 1}, failure \in Failures : SwitchCommand(mode, failure)
    \/ \E speed \in SpeedInputs, failure \in Failures : ApiSetSpeed(speed, failure)
    \/ \E percentage \in Percentages, failure \in Failures :
          FanSetPercentage(percentage, failure)
    \/ \E percentage \in Percentages \cup {NoPercentage}, failure \in Failures :
          FanTurnOn(percentage, failure)

ProxyNext ==
    \/ \E t \in Tasks : StartProxy(t)
    \/ \E t \in Tasks : Spawned(t)
    \/ \E t \in Tasks : SpawnFailed(t)
    \/ \E t \in Tasks : GraceOver(t)
    \/ \E t \in Tasks : StopProxy(t)
    \/ \E t \in Tasks : StopWaited(t)
    \/ \E t \in Tasks : StopTimeout(t)
    \/ \E t \in Tasks : WaitCall(t)
    \/ \E t \in Tasks : WaitPoll(t)
    \/ \E t \in Tasks : WaitTimeout(t)
    \/ \E p \in Procs : ProcExit(p)
    \/ \E p \in Procs, req \in Requests : Request(p, req)

\* A run exercises one of the two hand-off implementations, one timed
\* wait_for_credentials call, one run of the standalone extractor, or the
\* request hook of one addon.
Init ==
    \/ variant = "file" /\ ProxyInit /\ FlowInit /\ WaitIdle /\ ExtractIdle
                         /\ AddonIdle /\ CoordIdle /\ FanIdle
    \/ variant = "loopback" /\ ProxyIdle /\ FlowInit /\ WaitIdle /\ ExtractIdle
                             /\ AddonIdle /\ CoordIdle /\ FanIdle
    \/ variant = "timed" /\ TimedInit /\ ExtractIdle /\ AddonIdle /\ CoordIdle
                          /\ FanIdle
    \/ variant = "extract" /\ ExtractInit /\ AddonIdle /\ CoordIdle /\ FanIdle
    \/ variant = "addon" /\ ProxyIdle /\ FlowInit /\ WaitIdle /\ ExtractIdle
                          /\ AddonIdle /\ CoordIdle /\ FanIdle
    \/ variant = "manual" /\ ProxyIdle /\ FlowInit /\ WaitIdle /\ ExtractIdle
                           /\ AddonIdle /\ CoordIdle /\ FanIdle
    \/ variant = "coordinator" /\ ProxyIdle /\ FlowInit /\ WaitIdle /\ ExtractIdle
                                /\ AddonIdle /\ CoordInit /\ FanIdle
    \/ variant = "fan" /\ ProxyIdle /\ FlowInit /\ WaitIdle /\ ExtractIdle
                        /\ AddonIdle /\ CoordInit /\ FanIdle

Next ==
    \/ ProxyNext
    \/ FlowNext
    \/ TimedNext
    \/ ExtractNext
    \/ AddonNext
    \/ CoordNext
    \/ FanNext

Spec == Init /\ [][Next]_vars

\* The sub-models on their own: the same initial states and the same
\* actions as Spec, one implementation at a time.

\* ProxyManager and its file hand-off.
ProxyStart == Init /\ variant = "file"

ProxySpec == ProxyStart /\ [][ProxyNext]_vars

\* The config flow: the loopback hand-off and the manual step.
FlowStart == Init /\ variant \in {"loopback", "manual"}

FlowSpec == FlowStart /\ [][FlowNext]_vars

\* One timed wait_for_credentials call.
TimedStart == Init /\ variant = "timed"

TimedSpec == TimedStart /\ [][TimedNext]_vars

\* The request hook of the capture addon.
AddonStart == Init /\ variant = "addon"

AddonSpec == AddonStart /\ [][AddonNext]_vars

\* The coordinator and the entities of a config entry, and the API client.
DeviceNext ==
    \/ CoordNext
    \/ FanNext

DeviceStart == Init /\ variant \in {"coordinator", "fan"}

DeviceSpec == DeviceStart /\ [][DeviceNext]_vars

\* ================================================================= claims

\* The manager holds nothing: not running, no handle, no port, no file.
Clean ==
    /\ ~running
    /\ proxy_process = 0
    /\ proxy_port = 0
    /\ credFile = <<>>

\* No coroutine is inside start_proxy or stop_proxy.
Quiescent == \A t \in Tasks : pc[t] \in {"idle", "poll"}

LiveProcs == {p \in Procs : procState[p] = "alive"}

\* The step completes a start_proxy call of coroutine t with an exception
\* raised after the guard had let it through.
StartFails(t) ==
    /\ pc[t] \in {"spawn", "grace", "stop_wait", "kill_wait"}
    /\ pc[t] \in {"stop_wait", "kill_wait"} => pending[t] # NoExc
    /\ pc'[t] = "idle"
    /\ ret'.op = "start"
    /\ ret'.kind # "none"

\* C1: within a session the hand-off file is
\* first-writer-wins: a step that finds a credential in the file and leaves
\* one there leaves the same one, so a later matching request never
\* replaces the credential the first one committed.
C1_FirstWriterWins ==
    [][(credFile # <<>> /\ credFile' # <<>>) => credFile' = credFile]_vars

\* C2: whenever no start_proxy or stop_proxy call is in
\* progress, at most one spawned process is alive and every live process is
\* the one the manager's handle holds.
C2_SingleLiveProcess ==
    Quiescent =>
        /\ Cardinality(LiveProcs) <= 1
        /\ \A p \in LiveProcs : proxy_process = p

\* C3: every exit of the waiting step that was entered with a listener
\* and returned a result (timeout, entry created, captured credentials
\* rejected, device already configured, unexpected exception) has called
\* CredentialServer.stop exactly once and leaves credential_server None.
C3_ListenerStoppedOnce ==
    (/\ fpc = "idle"
     /\ result.handler = "waiting_for_script"
     /\ result.type # "cancelled"
     /\ result.error # "server_error")
    => (stepStops = 1 /\ credential_server = 0)

\* The except block of the waiting step ran after the listener had been
\* cleaned up: the second _cleanup_server found nothing to stop.
C3_Witness ==
    /\ result.handler = "waiting_for_script"
    /\ result.error = "automated_setup_failed"
    /\ stepStops = 1
    /\ \E n \in Servers : srvState[n] = "stopped" /\ srvEvent[n]

C7_AlreadyRunning ==
    [][\A t \in Tasks :
         (StartProxy(t) /\ running) =>
            /\ ret'.op = "start"
            /\ ret'.kind = "RuntimeError"
            /\ ret'.msg = <<"Proxy is already running">>
            /\ pc'[t] = "idle"
            /\ UNCHANGED <<proxy_port, proxy_process, running, procState,
                           procPort, credFile, session>>]_vars

\* A start_proxy call was refused on a running manager whose process lives
\* and whose file holds a captured credential.
C7_Witness ==
    /\ ret.op = "start"
    /\ ret.kind = "RuntimeError"
    /\ ret.msg = <<"Proxy is already running">>
    /\ running
    /\ Alive(proxy_process)
    /\ credFile # <<>>

\* C8: a start_proxy that fails after the guard leaves
\* the manager clean with no spawned process alive, and a failure for an
\* exited process is a RuntimeError whose message carries the stderr read
\* from it.
C8_FailedStartIsClean ==
    [][\A t \in Tasks :
         StartFails(t) =>
            /\ Clean'
            /\ LiveProcs' = {}
            /\ (pc[t] = "grace" /\ proxy_process # 0 /\ ~Alive(proxy_process))
                 => /\ ret'.kind = "RuntimeError"
                    /\ ret'.stderr # <<>> =>
                         ret'.msg = <<"Failed to start proxy: ">> \o ret'.stderr]_vars

\* C9: a wait only ever returns a credential committed in the current
\* session.  File channel: when wait_for_credentials returns a credential,
\* the file was written after the latest start_proxy.  Loopback channel:
\* when the waiting step resumes, the credentials it takes carry the token
\* of the listener the flow holds now (a stored body that is no object
\* carries no token and delivers no credential).
C9_NoStaleCredential ==
    [][/\ \A t \in Tasks : WaitPoll(t) => fileSession = session
       /\ WaitingResume =>
            /\ stepSrv = credential_server
            /\ IsDict(srvCred[stepSrv][1]) =>
                 Get(srvCred[stepSrv][1], "jwt_token") = SessionTok(stepSrv)]_vars

\* A wait in the second session returned a credential although the first
\* session had captured one too.
C9_Witness ==
    /\ session = 2
    /\ ret.op = "wait"
    /\ ret.cred # <<>>
    /\ fileSession = 2

\* C10: a listener accepts a single credential: once
\* its slot is filled no later POST changes it, and the credentials the
\* waiting step takes when it resumes are those of the first accepted POST.
C10_SingleAccept ==
    [][/\ \A n \in Servers : srvCred[n] # <<>> => srvCred'[n] = srvCred[n]
       /\ WaitingResume => srvCred[stepSrv][1] = srvFirst[stepSrv][1]]_vars

\* C4: a timed wait_for_credentials call of the manager
\* that has returned, and during which a valid credential was written to
\* the file before the timeout had elapsed, returned that credential, no
\* later than one polling interval after the write.
C4_FillBeforeTimeoutIsReturned ==
    (/\ variant = "timed"
     /\ wKind = "file"
     /\ wpc = "done"
     /\ fillTime >= wStart
     /\ fillTime < wStart + wT)
    => (wResult = credFile /\ wRetTime <= fillTime + PollTicks)

\* C5: a timed wait_for_credentials call, of the manager or of a listener,
\* never waits longer than its timeout plus one polling interval; once it
\* has returned, it returned None if the slot had not been filled by then,
\* a credential it returned was filled within the timeout, and it never
\* returned None after it had seen the fill.
C5_TimeoutIsHardBound ==
    variant = "timed" =>
        /\ wpc \in {"sleeping", "waiting"} => now - wStart <= wT + PollTicks
        /\ wpc = "done" =>
             /\ wRetTime - wStart <= wT + PollTicks
             /\ fillTime = -1 => wResult = <<>>
             /\ wResult # <<>> => fillTime <= wStart + wT
             /\ wResult = <<>> => ~wReported

\* Calls of both kinds ran into their timeout with nothing filled: the
\* polling call returned None later than its timeout, at its next wake-up.
C5_Witness ==
    /\ variant = "timed"
    /\ wKind = "file"
    /\ wpc = "done"
    /\ wT = 3
    /\ fillTime = -1
    /\ wResult = <<>>
    /\ wRetTime - wStart > wT

\* C11: every credential a hand-off channel delivers to the waiting flow has
\* a non-empty device_id and a non-empty jwt_token: what
\* ProxyManager.wait_for_credentials returns from the file, and what the
\* waiting step takes from its listener when the event wait completes.
C11_DeliveredFieldsNonEmpty ==
    [][/\ \A t \in Tasks : WaitPoll(t) => Valid(ret'.cred)
       /\ WaitingResume => Valid(srvCred[stepSrv])]_vars

\* C12: when the waiting step has been cancelled, the hand-off listener has
\* been torn down by the time the flow is gone: the flow holds no listener
\* and no CredentialServer is still listening.
C12_CancelTearsDown ==
    result.type = "cancelled" =>
        /\ credential_server = 0
        /\ \A n \in Servers : srvState[n] # "listening"

\* C13: validate_input raises InvalidAuth when the status call fails with
\* a client/authentication error, and CannotConnect when it fails with a
\* network error or a timeout.
C13_ValidationErrorKinds ==
    /\ validation.call = "http_401" => validation.raised = "InvalidAuth"
    /\ validation.call \in {"timeout", "network"} =>
          validation.raised = "CannotConnect"

\* C14: when the extractor was given an endpoint and its addon captured a
\* credential, then by the time start_proxy has returned the proxy has
\* been shut down and one POST of the captured credential has ended with
\* a response or with a handled error.
C14_PostCarriedThrough ==
    (xMain = "returned" /\ ha_endpoint /\ xCaptured # <<>>) =>
        /\ xProxy \in {"finished", "cancelled"}
        /\ xPost.state \in PostEnds
        /\ xPost.body # <<>>

\* What the claims about the hook say of a request, stated on its parts.
\* A device id: a non-empty string of hex digits and colons.
IsDeviceId(id) ==
    /\ id # <<>>
    /\ \A i \in 1..Len(id) : id[i] \in HexColonChars

ContainsStatusPath(path) ==
    \E i \in 1..Len(path), j \in 1..Len(path) :
        LET q == SubSeq(path, i, j)
            id == SubSeq(q, Len(DataPrefix) + 1, Len(q) - Len(StatusSuffix))
        IN  /\ IsDeviceId(id)
            /\ q = DataPrefix \o id \o StatusSuffix

\* C16: a hook call on a request whose host is not the target host, or
\* whose path does not match the device-status pattern, leaves the file
\* and the addon's stored credential as they were.
C16_NonMatchingHasNoEffect ==
    [][(/\ AddonHook
        /\ \/ aFlow.request.host # DUUX_API_HOST
           \/ ~ContainsStatusPath(aFlow.request.path))
       => UNCHANGED <<aFile, aStored>>]_vars

\* The hook ran on a request to the target host with a bearer token whose
\* path is not a status path, after an earlier request had filled the file.
C16_Witness ==
    /\ variant = "addon"
    /\ aPc = "idle"
    /\ aFlow.request.host = DUUX_API_HOST
    /\ aFlow.request.auth = Bearer(TokA)
    /\ aFlow.request.path = DataPrefix \o DevA \o <<"/","s","t","a","t","e">>
    /\ aFile = <<Cred(<<"A","F">>, TokA)>>

\* C17: a hook call on a request to the target host with a matching path
\* whose Authorization header is absent, does not start with 'Bearer ', or
\* has nothing after the prefix, leaves the file and the stored credential
\* as they were.
C17_NoBearerNoFill ==
    [][(/\ AddonHook
        /\ aFlow.request.host = DUUX_API_HOST
        /\ ContainsStatusPath(aFlow.request.path)
        /\ \A n \in 1..Len(aFlow.request.auth) :
              aFlow.request.auth # BearerPrefix \o SubSeq(aFlow.request.auth,
                                      Len(aFlow.request.auth) - n + 1,
                                      Len(aFlow.request.auth)))
       => UNCHANGED <<aFile, aStored>>]_vars

\* The hook ran on a status request of the target host whose header uses
\* another scheme and is longer than the prefix, on an empty hand-off.
C17_Witness ==
    /\ variant = "addon"
    /\ aPc = "idle"
    /\ aFlow.request.host = DUUX_API_HOST
    /\ aFlow.request.auth = <<"B","a","s","i","c"," ","a","b","c","d">>
    /\ aFlow.request.path = StatusPath(DevA)
    /\ aFile = <<>>

\* C18: the hook leaves the flow it is shown as it was: the request is not
\* modified and the flow is not killed, whether or not the request matched.
C18_HookIsTransparent ==
    [][AddonHook => (aFlow' = aFlow /\ aFlow'.live)]_vars

\* The hook ran on a request it captured from, and the flow is intact.
C18_Witness ==
    /\ variant = "addon"
    /\ aPc = "idle"
    /\ aFlow = Flow([host |-> DUUX_API_HOST, auth |-> Bearer(TokA),
                     path |-> StatusPath(DevA)])
    /\ aFile = <<Cred(DevA, TokA)>>

\* C19: stop_proxy on a live process sends terminate to it and waits for
\* it; kill is sent only when that wait has timed out with the process
\* still alive, and goes to the process that was sent terminate; and a
\* stop_proxy that had a live process returns only when that process has
\* exited.
C19_TerminateWaitKill ==
    [][\A t \in Tasks :
         /\ (StopProxy(t) /\ Alive(proxy_process)) =>
                (pc'[t] = "stop_wait" /\ awaited'[t] = proxy_process)
         /\ (StopTimeout(t) /\ OpOf(t) = "stop") =>
                /\ pc'[t] = "kill_wait"
                /\ awaited'[t] = awaited[t]
                /\ Alive(awaited[t])
         /\ (StopWaited(t) /\ OpOf(t) = "stop") =>
                (ret'.kind = "none" /\ procState[awaited[t]] = "exited")]_vars

C21_PartialFileIsNotYetFilled ==
    [][((TimedPoll \/ \E timeout \in 0..MaxT : TimedCall(timeout))
        /\ wKind = "file" /\ now - wStart' < wT')
       => /\ wpc' # "raised"
          /\ credFile \in {PartialFile, UnreadableFile} =>
                (wpc' = "sleeping" /\ wResult' = <<>>)
          /\ Valid(credFile) => (wpc' = "done" /\ wResult' = credFile)]_vars

\* The call logged a read error on an earlier pass and then returned the
\* credential of the completed file.
C21_Witness ==
    /\ variant = "timed"
    /\ wKind = "file"
    /\ wpc = "done"
    /\ wWarned
    /\ Valid(wResult)
    /\ wResult = credFile

\* C22: every POST /credentials is answered 200 when the body is a JSON
\* object with both device_id and jwt_token, 400 when it is a JSON object
\* that lacks one of them or is no JSON at all, and 500 otherwise.
C22_AnswerByBody ==
    [][\A n \in Servers : \A body \in Bodies(n) :
         Post(n, body) =>
           response' = (IF ~body.json THEN 400
                        ELSE IF ~IsDict(body.data) /\ ~Iterable(body.data) THEN 500
                        ELSE IF /\ IsDict(body.data)
                                /\ "device_id" \in DOMAIN body.data
                                /\ "jwt_token" \in DOMAIN body.data
                        THEN 200
                        ELSE 400)]_vars

\* C23: a POST answered 200 stores its body in the slot of that listener
\* and sets its event; a POST answered with any other status leaves every
\* stored credential and every event as they were; in both cases a flow
\* suspended in the waiting step stays suspended until it resumes itself.
C23_FilledIffAnswered200 ==
    [][variant = "loopback" => \A n \in Servers : \A body \in Bodies(n) :
         Post(n, body) =>
           /\ IF response' = 200
              THEN /\ srvCred'[n] = <<body.data>>
                   /\ srvEvent'[n]
              ELSE /\ srvCred' = srvCred
                   /\ srvEvent' = srvEvent
           /\ fpc' = fpc
           /\ result' = result]_vars

\* A flow is suspended on a listening server whose last POST was refused,
\* and nothing has been stored.
C23_Witness ==
    /\ variant = "loopback"
    /\ fpc = "waiting"
    /\ response \in {400, 500}
    /\ srvState[stepSrv] = "listening"
    /\ srvCred[stepSrv] = <<>>
    /\ ~srvEvent[stepSrv]

\* C24: when the wait times out, the waiting step stops the listener once,
\* drops the reference and hands back to the automated-setup step without
\* validating anything or creating an entry; the automated-setup step that
\* runs next installs a listener that was never used before, with an empty
\* slot and a clear event.
C24_TimeoutRestartsWithFreshListener ==
    [][/\ WaitingTimeout =>
            /\ stepStops' = 1
            /\ srvState'[stepSrv] = "stopped"
            /\ credential_server' = 0
            /\ result'.handler = "waiting_for_script"
            /\ result'.type = "progress_done"
            /\ result'.step_id = "automated_setup"
            /\ validation' = validation
            /\ ~flowDone'
       /\ (AutomatedSetup /\ result.type = "progress_done" /\ credential_server' # 0) =>
            /\ srvState[credential_server'] = "unborn"
            /\ srvCred'[credential_server'] = <<>>
            /\ ~srvEvent'[credential_server']]_vars

\* The retry after a timeout: the first listener was stopped with nothing
\* received and nothing validated, and a second one is listening.
C24_Witness ==
    /\ variant = "loopback"
    /\ result.handler = "automated_setup"
    /\ result.type = "progress"
    /\ srvState[1] = "stopped"
    /\ srvCred[1] = <<>>
    /\ ~srvEvent[1]
    /\ validation = NoValidation
    /\ credential_server = 2
    /\ srvState[2] = "listening"
    /\ ~flowDone

\* C25: a manual step on submitted credentials of a device that has no
\* entry yet, whose status call succeeds, finishes the flow with an entry
\* titled "Duux Fan (<device_id>)" whose data are the submitted credentials.
C25_ManualEntryCreatesEntry ==
    [][\A user_input \in ManualInputs :
         (ManualSetup(user_input, FALSE, "ok")) =>
            /\ flowDone'
            /\ result'.type = "create_entry"
            /\ result'.title = <<"Duux Fan (">> \o user_input.device_id \o <<")">>
            /\ result'.data = <<user_input>>]_vars

\* The flow finished with the entry of the second device.
C25_Witness ==
    /\ variant = "manual"
    /\ flowDone
    /\ result.handler = "manual_setup"
    /\ result.type = "create_entry"
    /\ result.data = <<Cred(DevB, TokB)>>
    /\ result.title = <<"Duux Fan (">> \o DevB \o <<")">>
    /\ validation.call = "ok"

\* C26: a manual step whose validation raises creates no entry and shows
\* the manual form again, with errors.base invalid_auth for InvalidAuth,
\* cannot_connect for CannotConnect and unknown for anything else.
C26_ManualValidationErrors ==
    [][\A user_input \in ManualInputs : \A call \in StatusCalls :
         (ManualSetup(user_input, FALSE, call) /\ validation'.raised # "none") =>
            /\ ~flowDone'
            /\ result'.type = "form"
            /\ result'.step_id = "manual_setup"
            /\ result'.data = <<>>
            /\ result'.error =
                  (IF validation'.raised = "InvalidAuth" THEN "invalid_auth"
                   ELSE IF validation'.raised = "CannotConnect" THEN "cannot_connect"
                   ELSE "unknown")]_vars

\* The status call was answered 401 and the manual form shows invalid_auth.
C26_Witness ==
    /\ variant = "manual"
    /\ ~flowDone
    /\ result.handler = "manual_setup"
    /\ result.type = "form"
    /\ result.error = "invalid_auth"
    /\ validation = [call |-> "http_401", raised |-> "InvalidAuth"]

\* C27: a waiting step that resumes or whose wait raises always returns a
\* result: the manual form with invalid_captured_credentials when the
\* validation of the captured credentials raises InvalidAuth or
\* CannotConnect, the manual form with automated_setup_failed for any other
\* exception (of the wait, of reading the credentials, of the duplicate
\* check, of the validation), and in these cases no entry.
C27_WaitingStepNeverCrashes ==
    [][/\ \A configured \in BOOLEAN : \A call \in StatusCalls :
            WaitingResumeWith(configured, call) =>
              LET raised == validate_input(call)
                  other == \/ ~IsDict(srvCred[stepSrv][1])
                           \/ configured
                           \/ raised \notin {"none", "InvalidAuth", "CannotConnect"}
              IN  /\ result'.handler = "waiting_for_script"
                  /\ result'.type \in {"form", "create_entry"}
                  /\ other =>
                        /\ result'.type = "form"
                        /\ result'.step_id = "manual_setup"
                        /\ result'.error = "automated_setup_failed"
                        /\ ~flowDone'
                  /\ (~other /\ raised # "none") =>
                        /\ result'.type = "form"
                        /\ result'.step_id = "manual_setup"
                        /\ result'.error = "invalid_captured_credentials"
                        /\ ~flowDone'
       /\ WaitingError =>
            /\ result'.type = "form"
            /\ result'.step_id = "manual_setup"
            /\ result'.error = "automated_setup_failed"
            /\ ~flowDone']_vars

\* The captured credentials were rejected with 401 and the manual form
\* shows invalid_captured_credentials.
C27_Witness ==
    /\ variant = "loopback"
    /\ ~flowDone
    /\ result.handler = "waiting_for_script"
    /\ result.type = "form"
    /\ result.step_id = "manual_setup"
    /\ result.error = "invalid_captured_credentials"
    /\ validation = [call |-> "http_401", raised |-> "InvalidAuth"]

\* C28: an update that fails with an API error creates the repair issue
\* only on the step that brings the count of authentication failures to 3,
\* and never while the issue it created stands undeleted; an
\* authentication failure always adds one to the count, also after the
\* issue was created.
C28_IssueCreatedOnceAtThree ==
    [][\A error_message \in ErrorMessages :
         UpdateError(error_message) =>
            /\ issueCalls'.create = 1 =>
                  /\ auth_failure_count' = 3
                  /\ ~repair_issue_created
                  /\ repair_issue_created'
                  /\ issue'
            /\ repair_issue_created =>
                  (issueCalls'.create = 0 /\ repair_issue_created')
            /\ is_auth_error(error_message) =>
                  auth_failure_count' = auth_failure_count + 1
            /\ issueCalls'.delete = 0]_vars

\* A fifth authentication failure in a row: the issue, created at the
\* third, stands and was not created again.
C28_Witness ==
    /\ variant = "coordinator"
    /\ auth_failure_count = 5
    /\ issue
    /\ repair_issue_created
    /\ issueCalls = NoCalls
    /\ updated.message = CommunicationPrefix \o UnauthorizedMessage

\* C29: an update whose response contains data returns that data and
\* leaves the failure count at 0; when the issue had been created it
\* deletes the issue with one call and clears the flag, otherwise it makes
\* no registry call.
C29_SuccessResetsAndDeletes ==
    [][\A resp \in Responses :
         (UpdateResponse(resp) /\ "data" \in DOMAIN resp) =>
            /\ updated'.kind = "data"
            /\ updated'.data = <<resp.data>>
            /\ auth_failure_count' = 0
            /\ issueCalls'.create = 0
            /\ issueCalls'.delete = (IF repair_issue_created THEN 1 ELSE 0)
            /\ ~repair_issue_created'
            /\ repair_issue_created => ~issue']_vars

\* A successful update has just deleted the issue.
C29_Witness ==
    /\ variant = "coordinator"
    /\ updated.kind = "data"
    /\ updated.data = <<StatusData>>
    /\ auth_failure_count = 0
    /\ ~repair_issue_created
    /\ ~issue
    /\ issueCalls = [create |-> 0, delete |-> 1]

\* C30: an update that fails with a timeout or a server error, or whose
\* response has no data, raises UpdateFailed, leaves the failure count,
\* the flag and the issue as they were and makes no registry call.
C30_OtherFailuresChangeNothing ==
    [][LET Frame == /\ updated'.kind = "UpdateFailed"
                    /\ auth_failure_count' = auth_failure_count
                    /\ repair_issue_created' = repair_issue_created
                    /\ issue' = issue
                    /\ issueCalls' = NoCalls
       IN  /\ \A error_message \in {TimeoutMessage, ServerErrorMessage} :
                UpdateError(error_message) => Frame
           /\ \A resp \in Responses :
                (UpdateResponse(resp) /\ "data" \notin DOMAIN resp) => Frame]_vars

\* A timeout after two authentication failures: the count is still 2.
C30_Witness ==
    /\ variant = "coordinator"
    /\ updated.kind = "UpdateFailed"
    /\ updated.message = CommunicationPrefix \o TimeoutMessage
    /\ auth_failure_count = 2
    /\ ~repair_issue_created
    /\ ~issue
    /\ issueCalls = NoCalls

\* C31: a set_speed(n) call on the client posts exactly the one speed
\* command for n when 1 <= n <= 30, and otherwise raises ValueError and
\* posts nothing.
C31_SetSpeedRange ==
    fCall.op = "set_speed" =>
        IF 1 <= fCall.arg /\ fCall.arg <= 30
        THEN /\ sent = <<[parameter |-> "speed", value |-> fCall.arg]>>
             /\ fRaised # "ValueError"
        ELSE /\ sent = <<>>
             /\ fRaised = "ValueError"

\* set_speed(31) raised ValueError and nothing was posted.
C31_Witness ==
    /\ variant = "fan"
    /\ fCall = FanCall("set_speed", 31)
    /\ fRaised = "ValueError"
    /\ sent = <<>>

\* C32: when every POST is answered, async_set_percentage(p) and
\* async_turn_on(percentage=p) post the speed that is p percent of 30
\* rounded to the nearest whole speed (50 gives 15, 75 gives 23) with one
\* speed command, and request one refresh.
C32_PercentageRoundsToNearest ==
    [][\A percentage \in Percentages :
         LET nearest == (30 * percentage + 50) \div 100
         IN  /\ FanSetPercentage(percentage, NoFailure) =>
                  /\ sent' = <<[parameter |-> "speed", value |-> nearest]>>
                  /\ refreshes' = 1
             /\ FanTurnOn(percentage, NoFailure) =>
                  /\ sent' = <<[parameter |-> "power", value |-> 1],
                               [parameter |-> "speed", value |-> nearest]>>
                  /\ refreshes' = 1]_vars

\* C39: no call of async_set_percentage(p) or async_turn_on(percentage=p)
\* with p in 1..100 ends in a ValueError, and every speed it posts lies
\* in 1..30.
C39_PercentageNeverOutOfRange ==
    (fCall.op \in {"set_percentage", "turn_on"} /\ fCall.arg \in 1..100) =>
        /\ fRaised # "ValueError"
        /\ \A i \in 1..Len(sent) :
              sent[i].parameter = "speed" => sent[i].value \in 1..30

\* C33: whenever the running flag is set, the manager holds a process
\* handle and a port; and the step that sets the flag finds the process
\* of the handle alive.
C33_RunningImpliesHandleAndPort ==
    running => (proxy_process # 0 /\ proxy_port # 0)

\* C34: whenever is_running is false, get_proxy_config raises 'Proxy is
\* not running'; whenever it returns a configuration, the port in it is
\* the port the live process of the handle listens on.
C34_ConfigOnlyWhileRunning ==
    /\ ~is_running => get_proxy_config.raised = "Proxy is not running"
    /\ get_proxy_config.raised = "" =>
          /\ proxy_process # 0
          /\ procState[proxy_process] = "alive"
          /\ procPort[proxy_process] = get_proxy_config.proxy_port

\* C35: at most one listener of a flow is listening, and every listening
\* listener is the one the flow's credential_server field refers to.
C35_NoLeakedListener ==
    /\ Cardinality({n \in Servers : srvState[n] = "listening"}) <= 1
    /\ \A n \in Servers : srvState[n] = "listening" => credential_server = n

\* C36: a step that creates an entry has, in that step, set the flow's
\* unique id to the device_id of the entry's data and called
\* validate_input on exactly those data, and validate_input returned.
C36_EntryOnlyFromValidated ==
    [][(result'.type = "create_entry" /\ result' # result) =>
          /\ validated' = result'.data
          /\ validation'.raised = "none"
          /\ validation'.call = "ok"
          /\ unique_id' = result'.data[1].device_id
          /\ (\E configured \in BOOLEAN, call \in StatusCalls :
                 WaitingResumeWith(configured, call))
             \/ (\E user_input \in ManualInputs, call \in StatusCalls :
                    ManualSetup(user_input, FALSE, call))]_vars

\* The waiting step created the entry of the captured device.
C36_Witness ==
    /\ variant = "loopback"
    /\ flowDone
    /\ result.handler = "waiting_for_script"
    /\ result.type = "create_entry"
    /\ result.data = validated
    /\ unique_id = DevA
    /\ validation = [call |-> "ok", raised |-> "none"]

\* C37: a successful status update that finds the repair issue in the
\* registry, whoever created it, leaves the registry without it.
C37_SuccessDeletesAnyIssue ==
    [][\A resp \in Responses :
         (UpdateResponse(resp) /\ "data" \in DOMAIN resp /\ issue) => ~issue']_vars

\* C38: the created flag is set only at a failure count of at least 3, and
\* with a count of 0 the flag is clear.
C38_FlagImpliesThreeFailures ==
    /\ repair_issue_created => auth_failure_count >= 3
    /\ auth_failure_count = 0 => ~repair_issue_created

\* Four authentication failures in a row, a timeout in between: the flag
\* is set at count 4.
C38_Witness ==
    /\ variant = "coordinator"
    /\ repair_issue_created
    /\ auth_failure_count = 4
    /\ updated.message = CommunicationPrefix \o TimeoutMessage

\* A cause for the monitor to end: the addon holds a capture, or stop_proxy
\* has been called.
XCause == xCaptured # <<>> \/ xSigints > 0

\* C40: after a capture by the addon or a stop_proxy call (Ctrl+C), the
\* next pass of _monitor_capture, at most one 1-second poll later, leaves
\* the polling loop: the task ends or goes on to its POST, and does not
\* sleep again.
C40_MonitorLeavesLoopAfterCause ==
    (variant = "extract" /\ xMonitor = "loop" /\ XCause) =>
        ENABLED (XMonitorPass /\ xMonitor' # "loop")
====
